---- MODULE Spec2Model ----
(***************************************************************************)
(* A model of the Retailabs AI Agents API: the three in-memory credential  *)
(* caches (slack_service.token_cache, linkedin_service.token_cache,        *)
(* whatsapp_service.api_key_cache), the per-channel service functions and  *)
(* the FastAPI route handlers that call them.                              *)
(*                                                                         *)
(* The four channel modules share no state: each cache is a module global  *)
(* of its own service and no function touches another module's cache.  A   *)
(* behaviour therefore exercises one channel, chosen by `focus` in Init;   *)
(* every interleaving of requests to several channels projects onto such   *)
(* behaviours.                                                             *)
(*                                                                         *)
(* Time is datetime.now() in hours.  Python's None is the string None.     *)
(***************************************************************************)
EXTENDS Integers, Sequences, FiniteSets, TLC

VARIABLES
    focus,                  \* the channel module a behaviour exercises
    now,                    \* datetime.now(), in hours
    slack_token_cache,      \* slack_service.token_cache
    linkedin_token_cache,   \* linkedin_service.token_cache
    api_key_cache,          \* whatsapp_service.api_key_cache
    req,                    \* the last call or request, with its inputs
    resp,                   \* what that call returned / the HTTP response
    calls,                  \* the external calls that request made, in order
    hist_store              \* history: per key, the last store of a usable secret

vars == <<focus, now, slack_token_cache, linkedin_token_cache, api_key_cache,
          req, resp, calls, hist_store>>

caches == <<slack_token_cache, linkedin_token_cache, api_key_cache>>

----------------------------------------------------------------------------
(* Bounds and program constants                                            *)

MaxTime == 24
TickHours == 12
TTL_HOURS == 24

None == "None"
PLACEHOLDER == "string"

\* Python truthiness of an Optional[str]
Truthy(s) == s # None /\ s # ""

EmptyCache == [k \in {} |-> None]

\* d[key] = value on a dict
DictSet(d, key, value) ==
    [k \in (DOMAIN d) \cup {key} |-> IF k = key THEN value ELSE d[k]]

\* del d[key]
DictDel(d, key) == [k \in (DOMAIN d) \ {key} |-> d[k]]

----------------------------------------------------------------------------
(* The credential caches                                                   *)

store_token_for_channel_keeps_old(cache, channel_id, bot_token, t) ==
    IF Truthy(channel_id) /\ Truthy(bot_token) /\ bot_token # PLACEHOLDER
       /\ channel_id \notin DOMAIN cache
    THEN DictSet(cache, channel_id, [token |-> bot_token, expires |-> t + TTL_HOURS])
    ELSE cache

store_token_for_channel_no_placeholder_check(cache, channel_id, bot_token, t) ==
    IF Truthy(channel_id) /\ Truthy(bot_token)
    THEN DictSet(cache, channel_id, [token |-> bot_token, expires |-> t + TTL_HOURS])
    ELSE cache

store_token_for_channel(cache, channel_id, bot_token, t) ==
    IF Truthy(channel_id) /\ Truthy(bot_token) /\ bot_token # PLACEHOLDER
    THEN DictSet(cache, channel_id, [token |-> bot_token, expires |-> t + TTL_HOURS])
    ELSE cache

get_token_for_channel_inclusive_expiry(cache, channel_id, t) ==
    IF channel_id \in DOMAIN cache
    THEN IF cache[channel_id].expires >= t
         THEN [value |-> cache[channel_id].token, cache |-> cache]
         ELSE [value |-> None, cache |-> DictDel(cache, channel_id)]
    ELSE [value |-> None, cache |-> cache]

\* a variant whose successful lookup renews the entry for another 24 hours
get_token_for_channel_sliding_expiry(cache, channel_id, t) ==
    IF channel_id \in DOMAIN cache
    THEN IF cache[channel_id].expires > t
         THEN [value |-> cache[channel_id].token,
               cache |-> DictSet(cache, channel_id,
                                 [token |-> cache[channel_id].token, expires |-> t + TTL_HOURS])]
         ELSE [value |-> None, cache |-> DictDel(cache, channel_id)]
    ELSE [value |-> None, cache |-> cache]

\* returns the value and the cache as the call leaves it
get_token_for_channel(cache, channel_id, t) ==
    IF channel_id \in DOMAIN cache
    THEN IF cache[channel_id].expires > t
         THEN [value |-> cache[channel_id].token, cache |-> cache]
         ELSE [value |-> None, cache |-> DictDel(cache, channel_id)]
    ELSE [value |-> None, cache |-> cache]

store_token_for_entity(cache, entity_id, access_token, t) ==
    IF Truthy(entity_id) /\ Truthy(access_token) /\ access_token # PLACEHOLDER
    THEN DictSet(cache, entity_id, [token |-> access_token, expires |-> t + TTL_HOURS])
    ELSE cache

get_token_for_entity(cache, entity_id, t) ==
    IF entity_id \in DOMAIN cache
    THEN IF cache[entity_id].expires > t
         THEN [value |-> cache[entity_id].token, cache |-> cache]
         ELSE [value |-> None, cache |-> DictDel(cache, entity_id)]
    ELSE [value |-> None, cache |-> cache]

store_api_key_for_phone(cache, phone_number, api_key, t) ==
    IF Truthy(phone_number) /\ Truthy(api_key) /\ api_key # PLACEHOLDER
    THEN DictSet(cache, phone_number, [api_key |-> api_key, expires |-> t + TTL_HOURS])
    ELSE cache

get_api_key_for_phone(cache, phone_number, t) ==
    IF phone_number \in DOMAIN cache
    THEN IF cache[phone_number].expires > t
         THEN [value |-> cache[phone_number].api_key, cache |-> cache]
         ELSE [value |-> None, cache |-> DictDel(cache, phone_number)]
    ELSE [value |-> None, cache |-> cache]

----------------------------------------------------------------------------
(* Direct calls of the cache functions                                     *)

CacheKeys == {"", "k1", "k2"}
Secrets == {None, "", PLACEHOLDER, "s1", "s2"}

\* the history of stores a caller would call effective: a secret that is
\* neither empty nor the placeholder
HistAfterStore(h, key, secret, t) ==
    IF Truthy(secret) /\ secret # PLACEHOLDER
    THEN DictSet(h, key, [secret |-> secret, at |-> t])
    ELSE h

CallStoreTokenForChannel ==
    /\ focus = "slack"
    /\ \E k \in CacheKeys, s \in Secrets :
          /\ slack_token_cache' = store_token_for_channel(slack_token_cache, k, s, now)
          /\ req' = [op |-> "store", key |-> k, secret |-> s, at |-> now]
          /\ hist_store' = HistAfterStore(hist_store, k, s, now)
    /\ resp' = [value |-> None]
    /\ calls' = <<>>
    /\ UNCHANGED <<focus, now, linkedin_token_cache, api_key_cache>>

CallGetTokenForChannel ==
    /\ focus = "slack"
    /\ \E k \in CacheKeys :
          \E r \in {get_token_for_channel(slack_token_cache, k, now)} :
          /\ slack_token_cache' = r.cache
          /\ resp' = [value |-> r.value]
          /\ req' = [op |-> "lookup", key |-> k, at |-> now]
    /\ calls' = <<>>
    /\ UNCHANGED <<focus, now, linkedin_token_cache, api_key_cache, hist_store>>

CallStoreTokenForEntity ==
    /\ focus = "linkedin"
    /\ \E k \in CacheKeys, s \in Secrets :
          /\ linkedin_token_cache' = store_token_for_entity(linkedin_token_cache, k, s, now)
          /\ req' = [op |-> "store", key |-> k, secret |-> s, at |-> now]
          /\ hist_store' = HistAfterStore(hist_store, k, s, now)
    /\ resp' = [value |-> None]
    /\ calls' = <<>>
    /\ UNCHANGED <<focus, now, slack_token_cache, api_key_cache>>

CallGetTokenForEntity ==
    /\ focus = "linkedin"
    /\ \E k \in CacheKeys :
          \E r \in {get_token_for_entity(linkedin_token_cache, k, now)} :
          /\ linkedin_token_cache' = r.cache
          /\ resp' = [value |-> r.value]
          /\ req' = [op |-> "lookup", key |-> k, at |-> now]
    /\ calls' = <<>>
    /\ UNCHANGED <<focus, now, slack_token_cache, api_key_cache, hist_store>>

CallStoreApiKeyForPhone ==
    /\ focus = "whatsapp"
    /\ \E k \in CacheKeys, s \in Secrets :
          /\ api_key_cache' = store_api_key_for_phone(api_key_cache, k, s, now)
          /\ req' = [op |-> "store", key |-> k, secret |-> s, at |-> now]
          /\ hist_store' = HistAfterStore(hist_store, k, s, now)
    /\ resp' = [value |-> None]
    /\ calls' = <<>>
    /\ UNCHANGED <<focus, now, slack_token_cache, linkedin_token_cache>>

CallGetApiKeyForPhone ==
    /\ focus = "whatsapp"
    /\ \E k \in CacheKeys :
          \E r \in {get_api_key_for_phone(api_key_cache, k, now)} :
          /\ api_key_cache' = r.cache
          /\ resp' = [value |-> r.value]
          /\ req' = [op |-> "lookup", key |-> k, at |-> now]
    /\ calls' = <<>>
    /\ UNCHANGED <<focus, now, slack_token_cache, linkedin_token_cache, hist_store>>

\* the wall clock advances between two calls
Tick ==
    /\ now + TickHours <= MaxTime
    /\ now' = now + TickHours
    /\ req' = [op |-> "tick"]
    /\ resp' = [value |-> None]
    /\ calls' = <<>>
    /\ UNCHANGED <<focus, caches, hist_store>>

InitCache ==
    /\ focus \in {"slack", "linkedin", "whatsapp"}
    /\ now = 0
    /\ slack_token_cache = EmptyCache
    /\ linkedin_token_cache = EmptyCache
    /\ api_key_cache = EmptyCache
    /\ req = [op |-> "start"]
    /\ resp = [value |-> None]
    /\ calls = <<>>
    /\ hist_store = EmptyCache

NextCache ==
    \/ CallStoreTokenForChannel
    \/ CallGetTokenForChannel
    \/ CallStoreTokenForEntity
    \/ CallGetTokenForEntity
    \/ CallStoreApiKeyForPhone
    \/ CallGetApiKeyForPhone
    \/ Tick

SpecCache == InitCache /\ [][NextCache]_vars

----------------------------------------------------------------------------
(* The external collaborators: what one call of them can answer            *)

Absent == "<absent>"

\* model.generate_content(...): raises, or returns a response with .text
LLMRaise(e) == [raised |-> TRUE, text |-> e]
LLMText(t) == [raised |-> FALSE, text |-> t]
LLMOutcomes == {LLMRaise("quota exceeded"), LLMText(" Hi team "), LLMText("")}

\* str.strip() on the texts the LLM can answer
Strip(t) == IF t = " Hi team " THEN "Hi team" ELSE t

\* composio_tool_set.execute_action(...): raises, or returns None, an object
\* or a dict; an indicator (successfull, success, data) is absent, falsy or
\* truthy; error is absent, None or a text
Raise(e) == [kind |-> "raise", text |-> e]
Answer(k, sf, su, da, er) ==
    [kind |-> k, successfull |-> sf, success |-> su, data |-> da, error |-> er]
AnswerNone == Answer("none", Absent, Absent, Absent, Absent)
ObjOk == Answer("obj", "truthy", Absent, Absent, Absent)
ObjErr == Answer("obj", "falsy", Absent, Absent, "rate limited")
DictOk == Answer("dict", Absent, "truthy", Absent, Absent)
DictErr == Answer("dict", "falsy", Absent, Absent, "not connected")

\* bool(response)
ResponseTruthy(r) ==
    \/ r.kind = "obj"
    \/ /\ r.kind = "dict"
       /\ \E f \in {"successfull", "success", "data", "error"} : r[f] # Absent

\* hasattr(response, f) and response.f
AttrTruthy(r, f) == r.kind = "obj" /\ r[f] = "truthy"

\* isinstance(response, dict) and response.get(f)
KeyTruthy(r, f) == r.kind = "dict" /\ r[f] = "truthy"

\* the six-way success check of the gmail, slack and whatsapp senders
ResponseSuccess(r) ==
    /\ ResponseTruthy(r)
    /\ \/ AttrTruthy(r, "successfull")
       \/ AttrTruthy(r, "success")
       \/ AttrTruthy(r, "data")
       \/ KeyTruthy(r, "successfull")
       \/ KeyTruthy(r, "success")
       \/ KeyTruthy(r, "data")

\* error_message or default, after the hasattr / 'error' in response probe
ResponseErrorOr(r, default) ==
    IF r.kind \in {"obj", "dict"} /\ r.error # Absent /\ Truthy(r.error)
    THEN r.error
    ELSE default

\* result.get(key, default) on a result dict
Get(d, key, default) == IF key \in DOMAIN d THEN d[key] ELSE default

\* composio_tool_set.initiate_connection(...): raises, or returns None or a
\* connection request object; status is what get_connected_account reports
SetupAnswer(k, url, acc, st) ==
    [kind |-> k, redirectUrl |-> url, connectedAccountId |-> acc, status |-> st]
SetupAnswers ==
    { Raise("connector unavailable"),
      SetupAnswer("none", Absent, Absent, Absent),
      SetupAnswer("obj", "https://auth.example/x", "acc1", "INITIATED"),
      SetupAnswer("obj", None, "acc1", "ACTIVE"),
      SetupAnswer("obj", Absent, "acc1", "ACTIVE") }

----------------------------------------------------------------------------
(* slack_service                                                           *)

SLACK_SEND == "SLACK_SENDS_A_MESSAGE_TO_A_SLACK_CHANNEL"

\* config.settings: the configured channel directory, keyed "1", "2", "3"
SLACK_CHANNELS ==
    [n \in {"1", "2", "3"} |->
        CASE n = "1" -> [name |-> "team-", id |-> "C08QPUC28UA"]
          [] n = "2" -> [name |-> "social", id |-> "C08Q7F3TGS3"]
          [] OTHER -> [name |-> "new-channel", id |-> "C08QQM6MREX"]]

setup_slack_integration(answer) ==
    LET call == [api |-> "composio", action |-> "initiate_connection",
                 app |-> "SLACK", entity_id |-> "default"] IN
    IF answer.kind = "raise"
    THEN [result |-> [success |-> FALSE,
                      message |-> "Error setting up Slack integration: " \o answer.text],
          calls |-> <<call>>]
    ELSE IF answer.kind = "obj" /\ answer.redirectUrl # Absent
    THEN [result |-> [success |-> TRUE, redirect_url |-> answer.redirectUrl,
                      message |-> "Please complete Slack authentication by opening this URL in your browser"],
          calls |-> <<call>>]
    ELSE [result |-> [success |-> FALSE, message |-> "Failed to setup Slack integration"],
          calls |-> <<call>>]

\* store_token_for_channel for each listed channel that has an id and a name
RECURSIVE StoreListed(_, _, _, _)
StoreListed(cache, channel_list, bot_token, t) ==
    IF channel_list = <<>> THEN cache
    ELSE LET c == Head(channel_list) IN
         StoreListed(IF "id" \in DOMAIN c /\ "name" \in DOMAIN c
                     THEN store_token_for_channel(cache, c.id, bot_token, t)
                     ELSE cache,
                     Tail(channel_list), bot_token, t)

RECURSIVE ListedChannels(_)
ListedChannels(channel_list) ==
    IF channel_list = <<>> THEN <<>>
    ELSE LET c == Head(channel_list) IN
         (IF "id" \in DOMAIN c /\ "name" \in DOMAIN c
          THEN <<[id |-> c.id, name |-> c.name]>> ELSE <<>>)
         \o ListedChannels(Tail(channel_list))

\* data.get('error', 'Unknown error')
SlackError(slack) == IF slack.error = Absent THEN "Unknown error" ELSE slack.error

SlackErrorName(error) ==
    IF error = "missing_scope"
    THEN "Bot token missing required scopes: channels:read, groups:read"
    ELSE IF error = "invalid_auth" \/ error = "not_authed"
    THEN "Invalid or expired bot token"
    ELSE "Slack API error: " \o error

get_channels_caches_on_error(cache, bot_token, slack, t) ==
    LET call == [api |-> "slack", action |-> "conversations.list", token |-> bot_token] IN
    IF ~Truthy(bot_token) \/ bot_token = PLACEHOLDER
    THEN [result |-> <<>>, cache |-> cache, calls |-> <<>>]
    ELSE IF slack.kind = "raise" \/ slack.status # 200
    THEN [result |-> <<>>, cache |-> cache, calls |-> <<call>>]
    ELSE IF ~slack.ok
    THEN [result |-> <<[id |-> "ERROR", name |-> SlackErrorName(SlackError(slack))]>>,
          cache |-> store_token_for_channel(cache, "ERROR", bot_token, t),
          calls |-> <<call>>]
    ELSE [result |-> ListedChannels(slack.channels),
          cache |-> StoreListed(cache, slack.channels, bot_token, t),
          calls |-> <<call>>]

\* slack is the answer of requests.get(conversations.list); the error of an
\* ok=false answer is data.get('error', 'Unknown error')
get_channels(cache, bot_token, slack, t) ==
    LET call == [api |-> "slack", action |-> "conversations.list", token |-> bot_token] IN
    IF ~Truthy(bot_token) \/ bot_token = PLACEHOLDER
    THEN [result |-> <<>>, cache |-> cache, calls |-> <<>>]
    ELSE IF slack.kind = "raise" \/ slack.status # 200
    THEN [result |-> <<>>, cache |-> cache, calls |-> <<call>>]
    ELSE IF ~slack.ok
    THEN [result |-> <<[id |-> "ERROR", name |-> SlackErrorName(SlackError(slack))]>>,
          cache |-> cache, calls |-> <<call>>]
    ELSE [result |-> ListedChannels(slack.channels),
          cache |-> StoreListed(cache, slack.channels, bot_token, t),
          calls |-> <<call>>]

slack_generate_message(llm) ==
    IF llm.raised
    THEN [success |-> FALSE, error |-> "Error generating message: " \o llm.text]
    ELSE [success |-> TRUE, content |-> llm.text]

\* conn maps an action name to what execute_action answers for it
send_to_slack_composio(message, channel_id, bot_token, conn) ==
    LET call == [api |-> "composio", action |-> SLACK_SEND,
                 params |-> [channel |-> channel_id, text |-> message, token |-> bot_token]]
        response == conn[SLACK_SEND] IN
    IF ~Truthy(bot_token) \/ bot_token = PLACEHOLDER
    THEN [result |-> [success |-> FALSE, error |-> "A valid Slack bot token must be provided"],
          calls |-> <<>>]
    ELSE IF response.kind = "raise"
    THEN [result |-> [success |-> FALSE,
                      error |-> "Error using Composio API: " \o response.text],
          calls |-> <<call>>]
    ELSE IF ResponseSuccess(response)
    THEN [result |-> [success |-> TRUE, message |-> "Message successfully sent to channel"],
          calls |-> <<call>>]
    ELSE [result |-> [success |-> FALSE,
                      error |-> "Failed to send message via Composio: "
                                \o ResponseErrorOr(response, "Unknown error in response format")],
          calls |-> <<call>>]

\* a variant that uses the cached token of the channel whenever there is one
\* and the supplied token only for a channel without an entry
send_to_slack_prefers_cached(cache, message, channel_id, bot_token, conn, t) ==
    IF ~Truthy(channel_id)
    THEN [result |-> [success |-> FALSE, error |-> "Channel ID is required"],
          cache |-> cache, calls |-> <<>>]
    ELSE LET got == get_token_for_channel(cache, channel_id, t) IN
         IF Truthy(got.value)
         THEN LET sent == send_to_slack_composio(message, channel_id, got.value, conn) IN
              [result |-> sent.result, cache |-> got.cache, calls |-> sent.calls]
         ELSE IF ~Truthy(bot_token) \/ bot_token = PLACEHOLDER
         THEN [result |-> [success |-> FALSE,
                           error |-> "No valid bot token provided or found in cache. Please provide a bot token or first call the channels endpoint with a valid token."],
               cache |-> got.cache, calls |-> <<>>]
         ELSE LET sent == send_to_slack_composio(message, channel_id, bot_token, conn) IN
              [result |-> sent.result,
               cache |-> store_token_for_channel(got.cache, channel_id, bot_token, t),
               calls |-> sent.calls]

send_to_slack(cache, message, channel_id, bot_token, conn, t) ==
    IF ~Truthy(channel_id)
    THEN [result |-> [success |-> FALSE, error |-> "Channel ID is required"],
          cache |-> cache, calls |-> <<>>]
    ELSE IF ~Truthy(bot_token) \/ bot_token = PLACEHOLDER
    THEN LET got == get_token_for_channel(cache, channel_id, t) IN
         IF Truthy(got.value)
         THEN LET sent == send_to_slack_composio(message, channel_id, got.value, conn) IN
              [result |-> sent.result, cache |-> got.cache, calls |-> sent.calls]
         ELSE [result |-> [success |-> FALSE,
                           error |-> "No valid bot token provided or found in cache. Please provide a bot token or first call the channels endpoint with a valid token."],
               cache |-> got.cache, calls |-> <<>>]
    ELSE LET sent == send_to_slack_composio(message, channel_id, bot_token, conn) IN
         [result |-> sent.result,
          cache |-> store_token_for_channel(cache, channel_id, bot_token, t),
          calls |-> sent.calls]

----------------------------------------------------------------------------
(* utils.response_utils and the slack routes                               *)

\* a variant that reports every rejection as an internal error
HTTPError_rewrapped(status, detail) == [status |-> 500, detail |-> "Error: " \o detail]

\* raise HTTPException(status_code, detail)
HTTPError(status, detail) == [status |-> status, detail |-> detail]

\* a handler's return value, sent as HTTP 200
OK(body) == [status |-> 200, body |-> body]

handle_service_result(result, error_message) ==
    IF ~Get(result, "success", FALSE)
    THEN HTTPError(500, error_message \o ": " \o Get(result, "error", "Unknown error"))
    ELSE OK(result)

LLMCall(purpose) == [api |-> "llm", action |-> purpose]

slack_setup_route(answer) ==
    LET r == setup_slack_integration(answer) IN
    [resp |-> handle_service_result(r.result, "Failed to setup Slack integration"),
     calls |-> r.calls]

\* bot_token is a required query parameter: FastAPI answers 422 without it
slack_get_channels_route(cache, bot_token, slack, t) ==
    IF bot_token = Absent
    THEN [resp |-> HTTPError(422, "Field required"), cache |-> cache, calls |-> <<>>]
    ELSE IF ~Truthy(bot_token) \/ bot_token = PLACEHOLDER
    THEN [resp |-> HTTPError(400, "A valid Slack bot token must be provided"),
          cache |-> cache, calls |-> <<>>]
    ELSE LET r == get_channels(cache, bot_token, slack, t) IN
         [resp |-> OK([channels |-> r.result]), cache |-> r.cache, calls |-> r.calls]

\* a variant that answers a failed generation without the error
slack_generate_route_without_error(channel_name, llm) ==
    LET result == slack_generate_message(llm) IN
    IF ~result.success
    THEN [resp |-> OK([success |-> FALSE, message |-> "Failed to generate message",
                       channel_name |-> None, message_content |-> None, error |-> None]),
          calls |-> <<LLMCall("message")>>]
    ELSE [resp |-> OK([success |-> TRUE, message |-> "Message generated successfully",
                       channel_name |-> IF Truthy(channel_name) THEN channel_name ELSE "channel",
                       message_content |-> result.content, error |-> None]),
          calls |-> <<LLMCall("message")>>]

slack_generate_route(channel_name, llm) ==
    LET result == slack_generate_message(llm) IN
    IF ~result.success
    THEN [resp |-> OK([success |-> FALSE, message |-> "Failed to generate message",
                       channel_name |-> None, message_content |-> None,
                       error |-> Get(result, "error", "Unknown error")]),
          calls |-> <<LLMCall("message")>>]
    ELSE [resp |-> OK([success |-> TRUE, message |-> "Message generated successfully",
                       channel_name |-> IF Truthy(channel_name) THEN channel_name ELSE "channel",
                       message_content |-> result.content, error |-> None]),
          calls |-> <<LLMCall("message")>>]

\* a variant that drops the generated text when the delivery fails
slack_send_route_drops_content(cache, channel_id, channel_name, bot_token, llm, conn, t) ==
    LET gen_result == slack_generate_message(llm)
        sent == send_to_slack(cache, gen_result.content, channel_id, bot_token, conn, t) IN
    IF ~gen_result.success
    THEN [resp |-> OK([success |-> FALSE, message |-> "Failed to generate message",
                       channel_name |-> None, message_content |-> None,
                       error |-> Get(gen_result, "error", "Unknown error")]),
          cache |-> cache, calls |-> <<LLMCall("message")>>]
    ELSE [resp |-> OK([success |-> sent.result.success, message |-> "Message handled",
                       channel_name |-> None,
                       message_content |-> IF sent.result.success THEN gen_result.content ELSE None,
                       error |-> Get(sent.result, "error", None)]),
          cache |-> sent.cache, calls |-> <<LLMCall("message")>> \o sent.calls]

\* a variant that starts the delivery whether or not a text was generated
slack_send_route_sends_anyway(cache, channel_id, channel_name, bot_token, llm, conn, t) ==
    LET name == IF Truthy(channel_name) THEN channel_name ELSE "channel"
        gen_result == slack_generate_message(llm)
        text == IF gen_result.success THEN gen_result.content ELSE ""
        sent == send_to_slack(cache, text, channel_id, bot_token, conn, t) IN
    IF ~gen_result.success \/ ~sent.result.success
    THEN [resp |-> OK([success |-> FALSE, message |-> "Failed to send message",
                       channel_name |-> name, message_content |-> text,
                       error |-> IF ~gen_result.success
                                 THEN Get(gen_result, "error", "Unknown error")
                                 ELSE Get(sent.result, "error", "Unknown error")]),
          cache |-> sent.cache, calls |-> <<LLMCall("message")>> \o sent.calls]
    ELSE [resp |-> OK([success |-> TRUE,
                       message |-> "Message sent successfully to #" \o name,
                       channel_name |-> name,
                       message_content |-> text, error |-> None]),
          cache |-> sent.cache, calls |-> <<LLMCall("message")>> \o sent.calls]

slack_send_route(cache, channel_id, channel_name, bot_token, llm, conn, t) ==
    LET name == IF Truthy(channel_name) THEN channel_name ELSE "channel"
        gen_result == slack_generate_message(llm) IN
    IF ~gen_result.success
    THEN [resp |-> OK([success |-> FALSE, message |-> "Failed to generate message",
                       channel_name |-> None, message_content |-> None,
                       error |-> Get(gen_result, "error", "Unknown error")]),
          cache |-> cache, calls |-> <<LLMCall("message")>>]
    ELSE LET sent == send_to_slack(cache, gen_result.content, channel_id, bot_token, conn, t) IN
         IF ~sent.result.success
         THEN [resp |-> OK([success |-> FALSE, message |-> "Failed to send message",
                            channel_name |-> name,
                            message_content |-> gen_result.content,
                            error |-> Get(sent.result, "error", "Unknown error")]),
               cache |-> sent.cache, calls |-> <<LLMCall("message")>> \o sent.calls]
         ELSE [resp |-> OK([success |-> TRUE,
                            message |-> "Message sent successfully to #" \o name,
                            channel_name |-> name,
                            message_content |-> gen_result.content, error |-> None]),
               cache |-> sent.cache, calls |-> <<LLMCall("message")>> \o sent.calls]

----------------------------------------------------------------------------
(* Requests to the slack endpoints                                         *)

SlackChannelIds == {"", "C1", "C2"}
SlackTokens == {None, PLACEHOLDER, "xoxb-1", "xoxb-2"}
\* what execute_action can answer for the action `name`
ConnOutcomes(name) == {Raise("Action " \o name \o " not found"), ObjOk, DictOk, DictErr}

\* the answer of the connector to one action; the action is not executed
\* unless `asked` (the request is refused, or the text was not generated)
ConnFor(name, asked) ==
    IF asked THEN {[n \in {name} |-> a] : a \in ConnOutcomes(name)}
    ELSE {[n \in {name} |-> AnswerNone]}

SlackHttp(status, ok, error, channels) ==
    [kind |-> "http", status |-> status, ok |-> ok, error |-> error, channels |-> channels]
SlackAnswers ==
    { Raise("connection reset"), SlackHttp(500, FALSE, Absent, <<>>) }
    \cup { SlackHttp(200, FALSE, e, <<>>) :
             e \in {"missing_scope", "invalid_auth", "not_authed", "ratelimited", Absent} }
    \cup { SlackHttp(200, TRUE, Absent, cs) :
             cs \in { <<>>,
                      <<[id |-> "C1", name |-> "general"]>>,
                      <<[id |-> "C1", name |-> "general"], [id |-> "C2", name |-> "random"]>>,
                      <<[id |-> "C2"], [id |-> "C1", name |-> "general"]>> } }

\* the bot_token query parameter: not given, empty, the placeholder or a token
SlackQueryTokens == (SlackTokens \ {None}) \cup {Absent, ""}

\* what Slack answers to a listing made with bot_token; Slack is not asked
\* by a request the route rejects
SlackFor(bot_token) ==
    IF bot_token \in {Absent, "", PLACEHOLDER}
    THEN {SlackHttp(200, TRUE, Absent, <<>>)}
    ELSE SlackAnswers

SlackSetup ==
    /\ focus = "slack"
    /\ \E answer \in SetupAnswers :
          \E r \in {slack_setup_route(answer)} :
          /\ req' = [op |-> "POST /slack/setup", setup |-> answer, at |-> now]
          /\ resp' = r.resp
          /\ calls' = r.calls
    /\ UNCHANGED <<focus, now, caches, hist_store>>

SlackChannels ==
    /\ focus = "slack"
    /\ \E bot_token \in SlackQueryTokens :
       \E slack \in SlackFor(bot_token) :
          \E r \in {slack_get_channels_route(slack_token_cache, bot_token, slack, now)} :
          /\ req' = [op |-> "GET /slack/channels", bot_token |-> bot_token,
                     slack |-> slack, at |-> now]
          /\ resp' = r.resp
          /\ calls' = r.calls
          /\ slack_token_cache' = r.cache
    /\ UNCHANGED <<focus, now, linkedin_token_cache, api_key_cache, hist_store>>

SlackGenerate ==
    /\ focus = "slack"
    /\ \E llm \in LLMOutcomes :
          \E r \in {slack_generate_route("general", llm)} :
          /\ req' = [op |-> "POST /slack/generate", llm |-> llm, at |-> now]
          /\ resp' = r.resp
          /\ calls' = r.calls
    /\ UNCHANGED <<focus, now, caches, hist_store>>

SlackSend ==
    /\ focus = "slack"
    /\ \E channel_id \in SlackChannelIds, bot_token \in SlackTokens,
          llm \in LLMOutcomes :
       \E conn \in ConnFor(SLACK_SEND, ~llm.raised) :
          \E r \in {slack_send_route(slack_token_cache, channel_id, "general",
                                    bot_token, llm, conn, now)} :
          /\ req' = [op |-> "POST /slack/send", channel_id |-> channel_id,
                     bot_token |-> bot_token, llm |-> llm, conn |-> conn, at |-> now]
          /\ resp' = r.resp
          /\ calls' = r.calls
          /\ slack_token_cache' = r.cache
    /\ UNCHANGED <<focus, now, linkedin_token_cache, api_key_cache, hist_store>>

NextSlack == SlackSetup \/ SlackChannels \/ SlackGenerate \/ SlackSend

\* the cache of the focused channel, and the secret of one of its entries
FocusCache ==
    CASE focus = "slack" -> slack_token_cache
      [] focus = "linkedin" -> linkedin_token_cache
      [] focus = "whatsapp" -> api_key_cache
      [] OTHER -> EmptyCache

EntrySecret(e) == IF "token" \in DOMAIN e THEN e.token ELSE e.api_key

\* a cache entry of the focused channel holding `secret` until `expires`
FocusEntry(secret, expires) ==
    IF focus = "whatsapp"
    THEN [api_key |-> secret, expires |-> expires]
    ELSE [token |-> secret, expires |-> expires]

Usable(secret) == Truthy(secret) /\ secret # PLACEHOLDER

----------------------------------------------------------------------------
(* Claims about the caches, checked under SpecCache                        *)

\* C1 (as stated): in each of the three caches, a lookup of key k made less
\* than 24 hours after the most recent store(k, s) of a non-empty,
\* non-placeholder s returns s, for every key k.
C1_LookupReturnsLastStored_AnyKey ==
    (req.op = "lookup" /\ req.key \in DOMAIN hist_store
        /\ req.at < hist_store[req.key].at + TTL_HOURS)
    => resp.value = hist_store[req.key].secret

\* C1 (amended): the same for every non-empty key k; a store under an empty
\* key is dropped, so a lookup of the empty key returns None.
C1_LookupReturnsLastStored ==
    /\ (req.op = "lookup" /\ Truthy(req.key) /\ req.key \in DOMAIN hist_store
           /\ req.at < hist_store[req.key].at + TTL_HOURS)
       => resp.value = hist_store[req.key].secret
    /\ (req.op = "lookup" /\ ~Truthy(req.key)) => resp.value = None

\* C1 witness: some hours after s1 and then s2 were stored under k1, with k2
\* stored as well, a lookup of k1 returns s2.
C1_Witness ==
    /\ req.op = "lookup" /\ req.key = "k1" /\ resp.value = "s2"
    /\ "k1" \in DOMAIN hist_store /\ hist_store["k1"].at < req.at
    /\ "k2" \in DOMAIN FocusCache

\* C2: a lookup of k made at or after the entry's expiry returns None and
\* removes the entry; a lookup of an absent key returns None and leaves it
\* absent; an absent key becomes present only by a store of a usable secret
\* for it; and a lookup that returns a secret returns the secret of an entry
\* whose expiry is strictly later than the time of the lookup.
C2_LookupStep ==
    req'.op = "lookup" =>
        /\ (req'.key \in DOMAIN FocusCache /\ FocusCache[req'.key].expires <= now)
              => (resp'.value = None /\ req'.key \notin DOMAIN FocusCache')
        /\ req'.key \notin DOMAIN FocusCache
              => (resp'.value = None /\ req'.key \notin DOMAIN FocusCache')

C2_AbsentUntilStore ==
    \A k \in CacheKeys :
        (k \notin DOMAIN FocusCache /\ k \in DOMAIN FocusCache')
            => (req'.op = "store" /\ req'.key = k /\ Usable(req'.secret))

C2_NoExpiredSecret ==
    (req.op = "lookup" /\ resp.value # None)
    => /\ req.key \in DOMAIN FocusCache
       /\ FocusCache[req.key].expires > req.at
       /\ EntrySecret(FocusCache[req.key]) = resp.value

C2_ExpiredLookupEvicts ==
    /\ []C2_NoExpiredSecret
    /\ [][C2_LookupStep /\ C2_AbsentUntilStore]_vars

\* C2 witness: a lookup made exactly at the expiry of a stored secret
\* returned None and removed the entry.
C2_Witness ==
    /\ req.op = "lookup" /\ req.key \in DOMAIN hist_store
    /\ req.at = hist_store[req.key].at + TTL_HOURS
    /\ Truthy(req.key)
    /\ resp.value = None /\ req.key \notin DOMAIN FocusCache

\* C3 (as stated): a store with an empty, missing or placeholder secret
\* leaves the cache as it was; a store with any other secret sets the
\* entry of the key to that secret with expiry now + 24h, for every key.
C3_StoreStep_AnyKey ==
    req'.op = "store" =>
        IF Usable(req'.secret)
        THEN FocusCache' = DictSet(FocusCache, req'.key,
                                   FocusEntry(req'.secret, now + TTL_HOURS))
        ELSE FocusCache' = FocusCache

C3_StoreContract_AnyKey == [][C3_StoreStep_AnyKey]_vars

\* C3 (amended): as stated when the key is non-empty; a store under an empty
\* or missing key is a no-op as well.
C3_StoreStep ==
    req'.op = "store" =>
        IF Usable(req'.secret) /\ Truthy(req'.key)
        THEN FocusCache' = DictSet(FocusCache, req'.key,
                                   FocusEntry(req'.secret, now + TTL_HOURS))
        ELSE FocusCache' = FocusCache

C3_StoreContract == [][C3_StoreStep]_vars

\* C3 witness: the placeholder was stored under a key whose entry is older
\* than this call, and the entry kept its secret and its earlier expiry.
C3_Witness ==
    /\ req.op = "store" /\ req.secret = PLACEHOLDER
    /\ req.key \in DOMAIN FocusCache
    /\ FocusCache[req.key].expires < req.at + TTL_HOURS
    /\ EntrySecret(FocusCache[req.key]) = hist_store[req.key].secret

----------------------------------------------------------------------------
(* The API: requests to the endpoints of one channel                       *)

(* linkedin_service                                                        *)

LINKEDIN_SEARCH ==
    <<"LINKEDIN_SEARCH_FOR_PEOPLE", "LINKEDIN_SEARCHES_FOR_PEOPLE", "LINKEDIN_SEARCHES_PROFILES">>
LINKEDIN_CONNECT ==
    <<"LINKEDIN_SENDS_CONNECTION_REQUEST", "LINKEDIN_SENDS_A_CONNECTION_REQUEST",
      "LINKEDIN_CONNECT_WITH_PROFILE">>
LINKEDIN_MESSAGE ==
    <<"LINKEDIN_SENDS_MESSAGE", "LINKEDIN_SENDS_A_MESSAGE", "LINKEDIN_MESSAGE_PROFILE">>
LINKEDIN_POST ==
    <<"LINKEDIN_CREATES_POST", "LINKEDIN_CREATES_A_POST", "LINKEDIN_SHARE_POST">>

setup_linkedin_integration(answer) ==
    LET call == [api |-> "composio", action |-> "initiate_connection",
                 app |-> "LINKEDIN", entity_id |-> "default"] IN
    IF answer.kind = "raise"
    THEN [result |-> [success |-> FALSE,
                      message |-> "Error setting up LinkedIn integration: " \o answer.text],
          calls |-> <<call>>]
    ELSE IF answer.kind = "obj" /\ answer.redirectUrl # Absent
    THEN [result |-> [success |-> TRUE, redirect_url |-> answer.redirectUrl,
                      message |-> "Please complete LinkedIn authentication by opening this URL in your browser"],
          calls |-> <<call>>]
    ELSE [result |-> [success |-> FALSE, message |-> "Failed to setup LinkedIn integration"],
          calls |-> <<call>>]

\* a variant of the chain that also moves on after a non-success response
execute_with_fallback_on_failure(names, params, conn) ==
    LET Call(i) == [api |-> "composio", action |-> names[i], params |-> params] IN
    IF AttrTruthy(conn[names[1]], "successfull")
    THEN [response |-> conn[names[1]], calls |-> <<Call(1)>>]
    ELSE IF AttrTruthy(conn[names[2]], "successfull")
    THEN [response |-> conn[names[2]], calls |-> <<Call(1), Call(2)>>]
    ELSE [response |-> conn[names[3]], calls |-> <<Call(1), Call(2), Call(3)>>]

\* a variant that tries a name a second time before it moves to the next
execute_with_fallback_retrying(names, params, conn) ==
    LET Call(i) == [api |-> "composio", action |-> names[i], params |-> params] IN
    IF conn[names[1]].kind # "raise"
    THEN [response |-> conn[names[1]], calls |-> <<Call(1)>>]
    ELSE IF conn[names[2]].kind # "raise"
    THEN [response |-> conn[names[2]], calls |-> <<Call(1), Call(1), Call(2)>>]
    ELSE [response |-> conn[names[3]],
          calls |-> <<Call(1), Call(1), Call(2), Call(2), Call(3)>>]

\* the nested try/except around execute_action: the second name is tried
\* when the first raised, the third when the second raised too; what the
\* third raises is left to the handler of the whole function
execute_with_fallback(names, params, conn) ==
    LET Call(i) == [api |-> "composio", action |-> names[i], params |-> params] IN
    IF conn[names[1]].kind # "raise"
    THEN [response |-> conn[names[1]], calls |-> <<Call(1)>>]
    ELSE IF conn[names[2]].kind # "raise"
    THEN [response |-> conn[names[2]], calls |-> <<Call(1), Call(2)>>]
    ELSE [response |-> conn[names[3]], calls |-> <<Call(1), Call(2), Call(3)>>]

\* hasattr(response, 'successfull' / 'success' / 'data') and its value
LinkedInSuccess(r) ==
    /\ ResponseTruthy(r)
    /\ \/ AttrTruthy(r, "successfull")
       \/ AttrTruthy(r, "success")
       \/ AttrTruthy(r, "data")

\* profile.id and profile.name are read as attributes; headline and
\* profileUrl with getattr(..., None)
RECURSIVE ProfileInfos(_)
ProfileInfos(profiles) ==
    IF profiles = <<>> THEN <<>>
    ELSE LET profile == Head(profiles) IN
         <<[id |-> profile.id, name |-> profile.name,
            headline |-> Get(profile, "headline", None),
            url |-> Get(profile, "profileUrl", None)]>>
         \o ProfileInfos(Tail(profiles))

\* some profile lacks an attribute that is read without a default
ProfileAttributeError(profiles) ==
    \E i \in 1..Len(profiles) : ~({"id", "name"} \subseteq DOMAIN profiles[i])

\* the attribute whose read raises: the profiles are read in order, id before
\* name; the class named in the text is that of the connector's objects
MissingProfileAttribute(profiles) ==
    LET i == CHOOSE i \in 1..Len(profiles) :
                 /\ ~({"id", "name"} \subseteq DOMAIN profiles[i])
                 /\ \A j \in 1..(i - 1) : {"id", "name"} \subseteq DOMAIN profiles[j]
    IN IF "id" \notin DOMAIN profiles[i] THEN "id" ELSE "name"

search_profiles(cache, keywords, access_token, limit, entity_id, conn, t) ==
    IF ~Truthy(access_token) \/ access_token = PLACEHOLDER
    THEN [result |-> [success |-> FALSE, error |-> "Invalid access token provided"],
          cache |-> cache, calls |-> <<>>]
    ELSE
    LET stored == store_token_for_entity(cache, entity_id, access_token, t)
        params == [keywords |-> keywords, limit |-> limit, token |-> access_token]
        tried == execute_with_fallback(LINKEDIN_SEARCH, params, conn)
        response == tried.response IN
    IF response.kind = "raise"
    THEN [result |-> [success |-> FALSE,
                      error |-> "Error searching LinkedIn profiles: " \o response.text],
          cache |-> stored, calls |-> tried.calls]
    ELSE IF ResponseTruthy(response) /\ AttrTruthy(response, "data")
    THEN IF ProfileAttributeError(response.profiles)
         THEN [result |-> [success |-> FALSE,
                           error |-> "Error searching LinkedIn profiles: "
                                     \o "'Profile' object has no attribute '"
                                     \o MissingProfileAttribute(response.profiles) \o "'"],
               cache |-> stored, calls |-> tried.calls]
         ELSE [result |-> [success |-> TRUE,
                           message |-> "Found " \o ToString(Len(response.profiles))
                                       \o " profiles matching your search",
                           profiles |-> ProfileInfos(response.profiles)],
               cache |-> stored, calls |-> tried.calls]
    ELSE [result |-> [success |-> FALSE,
                      error |-> "Failed to search LinkedIn profiles: "
                                \o ResponseErrorOr(response, "No profiles found")],
          cache |-> stored, calls |-> tried.calls]

send_connection_request(cache, profile_url, message, access_token, entity_id, conn, t) ==
    IF ~Truthy(access_token) \/ access_token = PLACEHOLDER
    THEN [result |-> [success |-> FALSE, error |-> "Invalid access token provided"],
          cache |-> cache, calls |-> <<>>]
    ELSE
    LET stored == store_token_for_entity(cache, entity_id, access_token, t)
        params == [profileUrl |-> profile_url,
                   message |-> IF Truthy(message) THEN message
                               ELSE "I'd like to connect with you on LinkedIn.",
                   token |-> access_token]
        tried == execute_with_fallback(LINKEDIN_CONNECT, params, conn)
        response == tried.response IN
    IF response.kind = "raise"
    THEN [result |-> [success |-> FALSE, error |-> "Error sending connection request: " \o response.text],
          cache |-> stored, calls |-> tried.calls]
    ELSE IF LinkedInSuccess(response)
    THEN [result |-> [success |-> TRUE, message |-> "Connection request sent successfully"],
          cache |-> stored, calls |-> tried.calls]
    ELSE [result |-> [success |-> FALSE,
                      error |-> "Failed to send connection request: "
                                \o ResponseErrorOr(response, "Unknown error")],
          cache |-> stored, calls |-> tried.calls]

\* the text of the answer is stripped; an LLM answer always carries a text
linkedin_generate_message(llm) ==
    IF llm.raised
    THEN [success |-> FALSE, error |-> "Error generating message: " \o llm.text]
    ELSE [success |-> TRUE, content |-> Strip(llm.text)]

linkedin_send_message(cache, profile_id, message, access_token, entity_id, conn, t) ==
    IF ~Truthy(access_token) \/ access_token = PLACEHOLDER
    THEN [result |-> [success |-> FALSE, error |-> "Invalid access token provided"],
          cache |-> cache, calls |-> <<>>]
    ELSE
    LET stored == store_token_for_entity(cache, entity_id, access_token, t)
        params == [profileId |-> profile_id, message |-> message, token |-> access_token]
        tried == execute_with_fallback(LINKEDIN_MESSAGE, params, conn)
        response == tried.response IN
    IF response.kind = "raise"
    THEN [result |-> [success |-> FALSE, error |-> "Error sending message: " \o response.text],
          cache |-> stored, calls |-> tried.calls]
    ELSE IF LinkedInSuccess(response)
    THEN [result |-> [success |-> TRUE, message |-> "Message sent successfully"],
          cache |-> stored, calls |-> tried.calls]
    ELSE [result |-> [success |-> FALSE,
                      error |-> "Failed to send message: "
                                \o ResponseErrorOr(response, "Unknown error")],
          cache |-> stored, calls |-> tried.calls]

\* image_url and article_url are not given; the data of an answer has no id
create_post(cache, content, access_token, entity_id, conn, t) ==
    IF ~Truthy(access_token) \/ access_token = PLACEHOLDER
    THEN [result |-> [success |-> FALSE, error |-> "Invalid access token provided"],
          cache |-> cache, calls |-> <<>>]
    ELSE
    LET stored == store_token_for_entity(cache, entity_id, access_token, t)
        params == [content |-> content, token |-> access_token]
        tried == execute_with_fallback(LINKEDIN_POST, params, conn)
        response == tried.response IN
    IF response.kind = "raise"
    THEN [result |-> [success |-> FALSE, error |-> "Error creating post: " \o response.text],
          cache |-> stored, calls |-> tried.calls]
    ELSE IF LinkedInSuccess(response)
    THEN [result |-> IF AttrTruthy(response, "successfull") \/ AttrTruthy(response, "success")
                     THEN [success |-> TRUE, message |-> "Post created successfully"]
                     ELSE [success |-> TRUE, message |-> "Post created successfully",
                           data |-> [post_id |-> None]],
          cache |-> stored, calls |-> tried.calls]
    ELSE [result |-> [success |-> FALSE,
                      error |-> "Failed to create post: "
                                \o ResponseErrorOr(response, "Unknown error")],
          cache |-> stored, calls |-> tried.calls]

(* the linkedin routes                                                    *)

\* request_entity_id is Absent when the request has no body; the route works
\* out entity_id and calls the service, which takes no argument
linkedin_setup_route(request_entity_id, answer) ==
    LET entity_id == IF request_entity_id \in {Absent, None, ""} THEN "default"
                     ELSE request_entity_id
        r == setup_linkedin_integration(answer) IN
    IF r.result.success
    THEN [resp |-> OK([success |-> TRUE,
                       message |-> Get(r.result, "message", "LinkedIn integration setup successful"),
                       data |-> IF "redirect_url" \in DOMAIN r.result
                                THEN [redirect_url |-> r.result.redirect_url] ELSE None,
                       error |-> None]),
          calls |-> r.calls]
    ELSE [resp |-> OK([success |-> FALSE, message |-> "Failed to setup LinkedIn integration",
                       data |-> None, error |-> Get(r.result, "message", "Unknown error")]),
          calls |-> r.calls]

linkedin_search_route(cache, keywords, access_token, limit, entity_id, conn, t) ==
    IF ~Truthy(access_token) \/ access_token = PLACEHOLDER
    THEN [resp |-> HTTPError(400, "A valid LinkedIn access token must be provided"),
          cache |-> cache, calls |-> <<>>]
    ELSE
    LET r == search_profiles(cache, keywords, access_token, limit, entity_id, conn, t) IN
    IF ~r.result.success
    THEN [resp |-> OK([success |-> FALSE, message |-> "Failed to search profiles",
                       profiles |-> <<>>, error |-> Get(r.result, "error", "Unknown error")]),
          cache |-> r.cache, calls |-> r.calls]
    ELSE [resp |-> OK([success |-> TRUE, message |-> Get(r.result, "message", "Profiles found"),
                       profiles |-> Get(r.result, "profiles", <<>>), error |-> None]),
          cache |-> r.cache, calls |-> r.calls]

\* the message is generated only when the request carries none, and replaced
\* by a fixed text when the generation fails
linkedin_connect_route(cache, profile_url, request_message, access_token, entity_id, llm, conn, t) ==
    IF ~Truthy(access_token) \/ access_token = PLACEHOLDER
    THEN [resp |-> HTTPError(400, "A valid LinkedIn access token must be provided"),
          cache |-> cache, calls |-> <<>>]
    ELSE
    LET gen_result == linkedin_generate_message(llm)
        message == IF Truthy(request_message) THEN request_message
                   ELSE IF gen_result.success THEN gen_result.content
                   ELSE "I'd like to connect with you on LinkedIn."
        asked == IF Truthy(request_message) THEN <<>> ELSE <<LLMCall("message")>>
        r == send_connection_request(cache, profile_url, message, access_token, entity_id, conn, t) IN
    IF ~r.result.success
    THEN [resp |-> OK([success |-> FALSE, message |-> "Failed to send connection request",
                       data |-> None, error |-> Get(r.result, "error", "Unknown error")]),
          cache |-> r.cache, calls |-> asked \o r.calls]
    ELSE [resp |-> OK([success |-> TRUE,
                       message |-> Get(r.result, "message", "Connection request sent successfully"),
                       data |-> [message_sent |-> message], error |-> None]),
          cache |-> r.cache, calls |-> asked \o r.calls]

linkedin_message_route(cache, profile_id, access_token, entity_id, llm, conn, t) ==
    IF ~Truthy(access_token) \/ access_token = PLACEHOLDER
    THEN [resp |-> HTTPError(400, "A valid LinkedIn access token must be provided"),
          cache |-> cache, calls |-> <<>>]
    ELSE
    LET gen_result == linkedin_generate_message(llm) IN
    IF ~gen_result.success
    THEN [resp |-> OK([success |-> FALSE, message |-> "Failed to generate message",
                       data |-> None, error |-> Get(gen_result, "error", "Unknown error")]),
          cache |-> cache, calls |-> <<LLMCall("message")>>]
    ELSE
    LET message_content == gen_result.content
        sent == linkedin_send_message(cache, profile_id, message_content, access_token, entity_id, conn, t) IN
    IF ~sent.result.success
    THEN [resp |-> OK([success |-> FALSE, message |-> "Failed to send message",
                       data |-> [message_content |-> message_content],
                       error |-> Get(sent.result, "error", "Unknown error")]),
          cache |-> sent.cache, calls |-> <<LLMCall("message")>> \o sent.calls]
    ELSE [resp |-> OK([success |-> TRUE, message |-> "Message sent successfully",
                           data |-> [message_content |-> message_content], error |-> None]),
          cache |-> sent.cache, calls |-> <<LLMCall("message")>> \o sent.calls]

linkedin_post_route(cache, access_token, entity_id, llm, conn, t) ==
    IF ~Truthy(access_token) \/ access_token = PLACEHOLDER
    THEN [resp |-> HTTPError(400, "A valid LinkedIn access token must be provided"),
          cache |-> cache, calls |-> <<>>]
    ELSE
    LET gen_result == linkedin_generate_message(llm) IN
    IF ~gen_result.success
    THEN [resp |-> OK([success |-> FALSE, message |-> "Failed to generate post content",
                       data |-> None, error |-> Get(gen_result, "error", "Unknown error")]),
          cache |-> cache, calls |-> <<LLMCall("message")>>]
    ELSE
    LET post_content == gen_result.content
        sent == create_post(cache, post_content, access_token, entity_id, conn, t) IN
    IF ~sent.result.success
    THEN [resp |-> OK([success |-> FALSE, message |-> "Failed to create post",
                       data |-> [post_content |-> post_content],
                       error |-> Get(sent.result, "error", "Unknown error")]),
          cache |-> sent.cache, calls |-> <<LLMCall("message")>> \o sent.calls]
    ELSE [resp |-> OK([success |-> TRUE, message |-> "Post created successfully",
                           data |-> [post_content |-> post_content,
                                     post_id |-> Get(Get(sent.result, "data", <<>>),
                                                     "post_id", None)],
                           error |-> None]),
          cache |-> sent.cache, calls |-> <<LLMCall("message")>> \o sent.calls]

(* Requests to the linkedin endpoints                                      *)

LinkedInEntityIds == {"", "default"}
LinkedInTokens == {"", PLACEHOLDER, "tokA"}

\* what the connector can answer to a search: data is a list of profiles
ProfilesAnswer(profiles) ==
    [kind |-> "obj", successfull |-> Absent, success |-> Absent,
     data |-> IF profiles = <<>> THEN "falsy" ELSE "truthy",
     error |-> Absent, profiles |-> profiles]
SearchOutcomes(name) ==
    { Raise("Action " \o name \o " not found"),
      ProfilesAnswer(<<[id |-> "p1", name |-> "Ada", profileUrl |-> "https://linkedin.example/in/ada"]>>),
      ProfilesAnswer(<<[name |-> "Bob"]>>),
      ProfilesAnswer(<<[id |-> "p1", name |-> "Ada"], [id |-> "p2"]>>),
      DictErr }

\* what the connector can answer to each candidate name of a chain
OutcomesOf(names, search) ==
    [n \in {names[1], names[2], names[3]} |->
        IF search THEN SearchOutcomes(n) ELSE ConnOutcomes(n)]

\* the answers of the connector to the three candidate names of a chain: a
\* name is asked only after the names before it raised, and none is asked
\* when the request is rejected or the text was not generated
ChainFor(names, outcomes, asked) ==
    LET F(a, b, c) == [n \in {names[1], names[2], names[3]} |->
                          IF n = names[1] THEN a ELSE IF n = names[2] THEN b ELSE c]
        After(x, S) == IF x.kind = "raise" THEN S ELSE {AnswerNone}
    IN IF ~asked THEN {F(AnswerNone, AnswerNone, AnswerNone)}
       ELSE UNION { UNION { { F(a, b, c) : c \in After(a, After(b, outcomes[names[3]])) } :
                            b \in After(a, outcomes[names[2]]) } :
                    a \in outcomes[names[1]] }

\* the LLM is asked only when `needed`
LLMFor(needed) == IF needed THEN LLMOutcomes ELSE {LLMText("")}

UsableToken(access_token) == Truthy(access_token) /\ access_token # PLACEHOLDER

LinkedInSetup ==
    /\ focus = "linkedin"
    /\ \E entity_id \in {Absent, None, "user123"}, answer \in SetupAnswers :
          \E r \in {linkedin_setup_route(entity_id, answer)} :
          /\ req' = [op |-> "POST /linkedin/setup", entity_id |-> entity_id,
                     setup |-> answer, at |-> now]
          /\ resp' = r.resp
          /\ calls' = r.calls
    /\ UNCHANGED <<focus, now, caches, hist_store>>

LinkedInSearch ==
    /\ focus = "linkedin"
    /\ \E access_token \in LinkedInTokens, entity_id \in LinkedInEntityIds :
       \E conn \in ChainFor(LINKEDIN_SEARCH, OutcomesOf(LINKEDIN_SEARCH, TRUE), UsableToken(access_token)) :
          \E r \in {linkedin_search_route(linkedin_token_cache, "engineer", access_token, 10,
                                         entity_id, conn, now)} :
          /\ req' = [op |-> "POST /linkedin/search-profiles", access_token |-> access_token,
                     entity_id |-> entity_id, conn |-> conn, at |-> now]
          /\ resp' = r.resp
          /\ calls' = r.calls
          /\ linkedin_token_cache' = r.cache
    /\ UNCHANGED <<focus, now, slack_token_cache, api_key_cache, hist_store>>

LinkedInConnect ==
    /\ focus = "linkedin"
    /\ \E access_token \in LinkedInTokens, entity_id \in LinkedInEntityIds,
          message \in {None, "Hello"} :
       \E llm \in LLMFor(UsableToken(access_token) /\ ~Truthy(message)) :
       \E conn \in ChainFor(LINKEDIN_CONNECT, OutcomesOf(LINKEDIN_CONNECT, FALSE), UsableToken(access_token)) :
          \E r \in {linkedin_connect_route(linkedin_token_cache, "https://linkedin.example/in/ada",
                                          message, access_token, entity_id, llm, conn, now)} :
          /\ req' = [op |-> "POST /linkedin/connect", access_token |-> access_token,
                     entity_id |-> entity_id, message |-> message, llm |-> llm,
                     conn |-> conn, at |-> now]
          /\ resp' = r.resp
          /\ calls' = r.calls
          /\ linkedin_token_cache' = r.cache
    /\ UNCHANGED <<focus, now, slack_token_cache, api_key_cache, hist_store>>

LinkedInMessage ==
    /\ focus = "linkedin"
    /\ \E access_token \in LinkedInTokens, entity_id \in LinkedInEntityIds :
       \E llm \in LLMFor(UsableToken(access_token)) :
       \E conn \in ChainFor(LINKEDIN_MESSAGE, OutcomesOf(LINKEDIN_MESSAGE, FALSE),
                            UsableToken(access_token) /\ ~llm.raised) :
          \E r \in {linkedin_message_route(linkedin_token_cache, "p1", access_token,
                                          entity_id, llm, conn, now)} :
          /\ req' = [op |-> "POST /linkedin/message", access_token |-> access_token,
                     entity_id |-> entity_id, llm |-> llm, conn |-> conn, at |-> now]
          /\ resp' = r.resp
          /\ calls' = r.calls
          /\ linkedin_token_cache' = r.cache
    /\ UNCHANGED <<focus, now, slack_token_cache, api_key_cache, hist_store>>

LinkedInPost ==
    /\ focus = "linkedin"
    /\ \E access_token \in LinkedInTokens, entity_id \in LinkedInEntityIds :
       \E llm \in LLMFor(UsableToken(access_token)) :
       \E conn \in ChainFor(LINKEDIN_POST, OutcomesOf(LINKEDIN_POST, FALSE),
                            UsableToken(access_token) /\ ~llm.raised) :
          \E r \in {linkedin_post_route(linkedin_token_cache, access_token,
                                       entity_id, llm, conn, now)} :
          /\ req' = [op |-> "POST /linkedin/post", access_token |-> access_token,
                     entity_id |-> entity_id, llm |-> llm, conn |-> conn, at |-> now]
          /\ resp' = r.resp
          /\ calls' = r.calls
          /\ linkedin_token_cache' = r.cache
    /\ UNCHANGED <<focus, now, slack_token_cache, api_key_cache, hist_store>>

NextLinkedIn ==
    \/ LinkedInSetup
    \/ LinkedInSearch
    \/ LinkedInConnect
    \/ LinkedInMessage
    \/ LinkedInPost

----------------------------------------------------------------------------
(* whatsapp_service                                                        *)

WHATSAPP_SEND_MESSAGE == "WHATSAPP_SEND_MESSAGE"
WHATSAPP_SEND_MEDIA == "WHATSAPP_SEND_MEDIA"
WHATSAPP_SEND_TEMPLATE_MESSAGE == "WHATSAPP_SEND_TEMPLATE_MESSAGE"

\* answer is what get_entity / initiate_connection do, its status what
\* get_connected_account reports for the connected account
setup_whatsapp_integration(auth_token, phone_number_id, entity_id, answer) ==
    LET entity == [api |-> "composio", action |-> "get_entity", entity_id |-> entity_id]
        call == [api |-> "composio", action |-> "initiate_connection", app |-> "WHATSAPP",
                 entity_id |-> entity_id,
                 params |-> [auth_token |-> auth_token, phone_number_id |-> phone_number_id]]
        account == [api |-> "composio", action |-> "get_connected_account",
                    entity_id |-> entity_id]
    IN
    IF answer.kind = "raise"
    THEN [result |-> [success |-> FALSE,
                      message |-> "Error setting up WhatsApp integration: " \o answer.text],
          calls |-> <<entity, call>>]
    ELSE IF answer.kind = "none"
    THEN [result |-> [success |-> FALSE, message |-> "Failed to setup WhatsApp integration"],
          calls |-> <<entity, call>>]
    ELSE IF answer.redirectUrl # Absent /\ Truthy(answer.redirectUrl)
    THEN [result |-> [success |-> TRUE, redirect_url |-> answer.redirectUrl,
                      message |-> "Please complete WhatsApp authentication by opening this URL in your browser"],
          calls |-> <<entity, call>>]
    ELSE IF answer.connectedAccountId # Absent /\ answer.status = "ACTIVE"
    THEN [result |-> [success |-> TRUE, message |-> "WhatsApp connection is active"],
          calls |-> <<entity, call, account>>]
    ELSE [result |-> [success |-> TRUE,
                      message |-> "WhatsApp connection created successfully with your API credentials"],
          calls |-> IF answer.connectedAccountId # Absent
                    THEN <<entity, call, account>> ELSE <<entity, call>>]

\* a phone number is a string; PhoneChars lists the characters of the numbers
\* that requests carry
PhoneChars ==
    { <<>>,
      <<"1", "2", "3", "4", "5">>,
      <<"+", "1", "2", "3", "4", "5", "6", "7", "8", "9", "0", "1">> }

RECURSIVE Join(_)
Join(chars) == IF chars = <<>> THEN "" ELSE Head(chars) \o Join(Tail(chars))

\* the phone numbers validate_phone_number is applied to on its own: an
\* optional lead, digits, an optional separator, more digits
PhoneLeads == {<<>>, <<"+">>, <<" ">>}
PhoneBlocksA ==
    {<<"1", "2", "3", "4">>, <<"4", "4", "2", "0", "7">>, <<"9", "1", "9", "8", "7", "6">>}
PhoneSeparators == {<<>>, <<"-">>, <<" ">>, <<"(">>}
PhoneBlocksB ==
    {<<>>, <<"5", "6", "7", "8", "9">>, <<"5", "5", "5", "0", "1", "9">>,
     <<"0", "0", "0", "0", "0", "0", "1">>}
PhoneInputs ==
    {<<>>, <<" ">>, <<"+">>}
    \cup {l \o a \o p \o b : l \in PhoneLeads, a \in PhoneBlocksA,
                              p \in PhoneSeparators, b \in PhoneBlocksB}

\* the characters of a text
\* one number written with and without the leading '+'
PhoneSpellings ==
    { <<"+", "1", "2", "3", "4", "5", "5", "5", "0", "1", "9">>,
      <<"1", "2", "3", "4", "5", "5", "5", "0", "1", "9">> }

Chars(text) ==
    IF \E chars \in PhoneChars \cup PhoneSpellings : Join(chars) = text
    THEN CHOOSE chars \in PhoneChars \cup PhoneSpellings : Join(chars) = text
    ELSE CHOOSE chars \in PhoneInputs : Join(chars) = text

\* str.isdigit on the ASCII characters the numbers are made of
IsDigit(c) == c \in {"0", "1", "2", "3", "4", "5", "6", "7", "8", "9"}

MIN_DIGITS == 10

\* a variant without the minimum number of digits
validate_phone_number_any_length(phone_number) ==
    IF ~Truthy(phone_number)
    THEN [is_valid |-> FALSE, result |-> "Phone number cannot be empty"]
    ELSE [is_valid |-> TRUE, result |-> Join(SelectSeq(Chars(phone_number), IsDigit))]

\* a variant that removes the '+' signs only
validate_phone_number_strips_plus_only(phone_number) ==
    IF ~Truthy(phone_number)
    THEN [is_valid |-> FALSE, result |-> "Phone number cannot be empty"]
    ELSE LET cleaned == SelectSeq(Chars(phone_number), LAMBDA c : c # "+") IN
         IF Len(cleaned) < MIN_DIGITS
         THEN [is_valid |-> FALSE,
               result |-> "Phone number " \o phone_number
                          \o " is too short. It should include country code and at least 10 digits."]
         ELSE [is_valid |-> TRUE, result |-> Join(cleaned)]

validate_phone_number(phone_number) ==
    IF ~Truthy(phone_number)
    THEN [is_valid |-> FALSE, result |-> "Phone number cannot be empty"]
    ELSE LET cleaned == SelectSeq(Chars(phone_number), IsDigit) IN
         IF Len(cleaned) < MIN_DIGITS
         THEN [is_valid |-> FALSE,
               result |-> "Phone number " \o phone_number
                          \o " is too short. It should include country code and at least 10 digits."]
         ELSE [is_valid |-> TRUE, result |-> Join(cleaned)]

whatsapp_generate_message(llm) ==
    IF llm.raised
    THEN [success |-> FALSE, error |-> "Error generating message: " \o llm.text]
    ELSE [success |-> TRUE, content |-> llm.text]

send_text_to_whatsapp(message, phone_number, api_key, entity_id, conn) ==
    LET validated == validate_phone_number(phone_number)
        call == [api |-> "composio", action |-> "WHATSAPP_SEND_MESSAGE",
                 params |-> [to_number |-> validated.result, text |-> message],
                 entity_id |-> entity_id]
        response == conn["WHATSAPP_SEND_MESSAGE"] IN
    IF ~validated.is_valid
    THEN [result |-> [success |-> FALSE, error |-> validated.result], calls |-> <<>>]
    ELSE IF response.kind = "raise"
    THEN [result |-> [success |-> FALSE,
                      error |-> "Error using Composio API: " \o response.text],
          calls |-> <<call>>]
    ELSE IF ResponseSuccess(response)
    THEN [result |-> [success |-> TRUE,
                      message |-> "Message successfully sent to " \o phone_number],
          calls |-> <<call>>]
    ELSE [result |-> [success |-> FALSE,
                      error |-> "Failed to send message via Composio: "
                                \o ResponseErrorOr(response, "Unknown error in response format")],
          calls |-> <<call>>]

send_media_to_whatsapp(media_url, caption, phone_number, api_key, entity_id, conn) ==
    LET validated == validate_phone_number(phone_number)
        call == [api |-> "composio", action |-> "WHATSAPP_SEND_MEDIA",
                 params |-> [to_number |-> validated.result, media_url |-> media_url, caption |-> caption],
                 entity_id |-> entity_id]
        response == conn["WHATSAPP_SEND_MEDIA"] IN
    IF ~validated.is_valid
    THEN [result |-> [success |-> FALSE, error |-> validated.result], calls |-> <<>>]
    ELSE IF response.kind = "raise"
    THEN [result |-> [success |-> FALSE,
                      error |-> "Error using Composio API: " \o response.text],
          calls |-> <<call>>]
    ELSE IF ResponseSuccess(response)
    THEN [result |-> [success |-> TRUE,
                      message |-> "Media successfully sent to " \o phone_number],
          calls |-> <<call>>]
    ELSE [result |-> [success |-> FALSE,
                      error |-> "Failed to send media via Composio: "
                                \o ResponseErrorOr(response, "Unknown error in response format")],
          calls |-> <<call>>]

send_template_to_whatsapp(template_name, template_params, phone_number, api_key, entity_id, conn) ==
    LET validated == validate_phone_number(phone_number)
        call == [api |-> "composio", action |-> "WHATSAPP_SEND_TEMPLATE_MESSAGE",
                 params |-> [to_number |-> validated.result, template_name |-> template_name,
                            template_params |-> template_params],
                 entity_id |-> entity_id]
        response == conn["WHATSAPP_SEND_TEMPLATE_MESSAGE"] IN
    IF ~validated.is_valid
    THEN [result |-> [success |-> FALSE, error |-> validated.result], calls |-> <<>>]
    ELSE IF response.kind = "raise"
    THEN [result |-> [success |-> FALSE,
                      error |-> "Error using Composio API: " \o response.text],
          calls |-> <<call>>]
    ELSE IF ResponseSuccess(response)
    THEN [result |-> [success |-> TRUE,
                      message |-> "Template message successfully sent to " \o phone_number],
          calls |-> <<call>>]
    ELSE [result |-> [success |-> FALSE,
                      error |-> "Failed to send template message via Composio: "
                                \o ResponseErrorOr(response, "Unknown error in response format")],
          calls |-> <<call>>]

\* a variant that sends a message of an unknown type as text
send_to_whatsapp_defaults_to_text(cache, message, phone_number, request, api_key, entity_id, conn, t) ==
    IF ~Truthy(phone_number)
    THEN [result |-> [success |-> FALSE, error |-> "Phone number is required"],
          cache |-> cache, calls |-> <<>>]
    ELSE
    LET got == get_api_key_for_phone(cache, phone_number, t)
        cached == ~Truthy(api_key) \/ api_key = PLACEHOLDER
        actual_api_key == IF cached THEN got.value ELSE api_key
        after == IF cached THEN got.cache
                 ELSE store_api_key_for_phone(cache, phone_number, api_key, t)
        Done(sent) == [result |-> sent.result, cache |-> after, calls |-> sent.calls]
        Refused(error) == [result |-> [success |-> FALSE, error |-> error],
                           cache |-> after, calls |-> <<>>]
    IN
    IF request.message_type = "text"
    THEN Done(send_text_to_whatsapp(message, phone_number, actual_api_key, entity_id, conn))
    ELSE IF request.message_type = "media"
    THEN IF ~Truthy(request.media_url)
         THEN Refused("Media URL is required for media messages")
         ELSE Done(send_media_to_whatsapp(request.media_url, message, phone_number,
                                          actual_api_key, entity_id, conn))
    ELSE IF request.message_type = "template"
    THEN IF ~Truthy(request.template_name) \/ DOMAIN request.template_params = {}
         THEN Refused("Template name and parameters are required for template messages")
         ELSE Done(send_template_to_whatsapp(request.template_name, request.template_params,
                                             phone_number, actual_api_key, entity_id, conn))
    ELSE Done(send_text_to_whatsapp(message, phone_number, actual_api_key, entity_id, conn))

\* request gathers message_type, media_url, template_name and template_params
\* a variant that validates the number first and stores the key under the
\* cleaned number
send_to_whatsapp_stores_cleaned(cache, message, phone_number, request, api_key, entity_id, conn, t) ==
    IF ~Truthy(phone_number)
    THEN [result |-> [success |-> FALSE, error |-> "Phone number is required"],
          cache |-> cache, calls |-> <<>>]
    ELSE
    LET got == get_api_key_for_phone(cache, phone_number, t)
        cached == ~Truthy(api_key) \/ api_key = PLACEHOLDER
        actual_api_key == IF cached THEN got.value ELSE api_key
        checked == validate_phone_number(phone_number)
        after == IF cached THEN got.cache
                 ELSE IF ~checked.is_valid THEN cache
                 ELSE store_api_key_for_phone(cache, checked.result, api_key, t)
        Done(sent) == [result |-> sent.result, cache |-> after, calls |-> sent.calls]
        Refused(error) == [result |-> [success |-> FALSE, error |-> error],
                           cache |-> after, calls |-> <<>>]
    IN
    IF request.message_type = "text"
    THEN Done(send_text_to_whatsapp(message, phone_number, actual_api_key, entity_id, conn))
    ELSE IF request.message_type = "media"
    THEN IF ~Truthy(request.media_url)
         THEN Refused("Media URL is required for media messages")
         ELSE Done(send_media_to_whatsapp(request.media_url, message, phone_number,
                                          actual_api_key, entity_id, conn))
    ELSE IF request.message_type = "template"
    THEN IF ~Truthy(request.template_name) \/ DOMAIN request.template_params = {}
         THEN Refused("Template name and parameters are required for template messages")
         ELSE Done(send_template_to_whatsapp(request.template_name, request.template_params,
                                             phone_number, actual_api_key, entity_id, conn))
    ELSE Refused("Invalid message type: " \o request.message_type
                 \o ". Must be one of: text, media, template")

send_to_whatsapp(cache, message, phone_number, request, api_key, entity_id, conn, t) ==
    IF ~Truthy(phone_number)
    THEN [result |-> [success |-> FALSE, error |-> "Phone number is required"],
          cache |-> cache, calls |-> <<>>]
    ELSE
    LET got == get_api_key_for_phone(cache, phone_number, t)
        cached == ~Truthy(api_key) \/ api_key = PLACEHOLDER
        actual_api_key == IF cached THEN got.value ELSE api_key
        after == IF cached THEN got.cache
                 ELSE store_api_key_for_phone(cache, phone_number, api_key, t)
        Done(sent) == [result |-> sent.result, cache |-> after, calls |-> sent.calls]
        Refused(error) == [result |-> [success |-> FALSE, error |-> error],
                           cache |-> after, calls |-> <<>>]
    IN
    IF request.message_type = "text"
    THEN Done(send_text_to_whatsapp(message, phone_number, actual_api_key, entity_id, conn))
    ELSE IF request.message_type = "media"
    THEN IF ~Truthy(request.media_url)
         THEN Refused("Media URL is required for media messages")
         ELSE Done(send_media_to_whatsapp(request.media_url, message, phone_number,
                                          actual_api_key, entity_id, conn))
    ELSE IF request.message_type = "template"
    THEN IF ~Truthy(request.template_name) \/ DOMAIN request.template_params = {}
         THEN Refused("Template name and parameters are required for template messages")
         ELSE Done(send_template_to_whatsapp(request.template_name, request.template_params,
                                             phone_number, actual_api_key, entity_id, conn))
    ELSE Refused("Invalid message type: " \o request.message_type
                 \o ". Must be one of: text, media, template")

----------------------------------------------------------------------------
(* the whatsapp routes                                                     *)

\* the 400 is raised outside any try block
whatsapp_setup_route(auth_token, phone_number_id, request_entity_id, answer) ==
    IF ~Truthy(auth_token) \/ ~Truthy(phone_number_id)
    THEN [resp |-> HTTPError(400, "Both auth_token and phone_number_id are required for WhatsApp integration"),
          calls |-> <<>>]
    ELSE
    LET entity_id == IF Truthy(request_entity_id) THEN request_entity_id ELSE "default"
        r == setup_whatsapp_integration(auth_token, phone_number_id, entity_id, answer) IN
    [resp |-> handle_service_result(r.result, "Failed to setup WhatsApp integration"),
     calls |-> r.calls]

whatsapp_generate_route(phone_number, llm) ==
    LET result == whatsapp_generate_message(llm) IN
    IF ~result.success
    THEN [resp |-> OK([success |-> FALSE, message |-> "Failed to generate message",
                       phone_number |-> None, message_content |-> None,
                       error |-> Get(result, "error", "Unknown error")]),
          calls |-> <<LLMCall("message")>>]
    ELSE [resp |-> OK([success |-> TRUE, message |-> "Message generated successfully",
                       phone_number |-> phone_number,
                       message_content |-> result.content, error |-> None]),
          calls |-> <<LLMCall("message")>>]

TextRequest ==
    [message_type |-> "text", media_url |-> None, template_name |-> None,
     template_params |-> <<>>]

whatsapp_send_route(cache, phone_number, api_key, entity_id, llm, conn, t) ==
    LET gen_result == whatsapp_generate_message(llm) IN
    IF ~gen_result.success
    THEN [resp |-> OK([success |-> FALSE, message |-> "Failed to generate message",
                       phone_number |-> None, message_content |-> None,
                       error |-> Get(gen_result, "error", "Unknown error")]),
          cache |-> cache, calls |-> <<LLMCall("message")>>]
    ELSE
    LET message_content == gen_result.content
        sent == send_to_whatsapp(cache, message_content, phone_number, TextRequest,
                                 api_key, entity_id, conn, t) IN
    IF ~sent.result.success
    THEN [resp |-> OK([success |-> FALSE, message |-> "Failed to send message",
                       phone_number |-> phone_number, message_content |-> message_content,
                       error |-> Get(sent.result, "error", "Unknown error")]),
          cache |-> sent.cache, calls |-> <<LLMCall("message")>> \o sent.calls]
    ELSE [resp |-> OK([success |-> TRUE,
                       message |-> "Message sent successfully to " \o phone_number,
                       phone_number |-> phone_number, message_content |-> message_content,
                       error |-> None]),
          cache |-> sent.cache, calls |-> <<LLMCall("message")>> \o sent.calls]

whatsapp_send_media_route(cache, media_url, caption, phone_number, api_key, entity_id, conn, t) ==
    LET sent == send_to_whatsapp(cache, caption, phone_number,
                                 [message_type |-> "media", media_url |-> media_url,
                                  template_name |-> None, template_params |-> <<>>],
                                 api_key, entity_id, conn, t) IN
    IF ~sent.result.success
    THEN [resp |-> OK([success |-> FALSE, message |-> "Failed to send media",
                       phone_number |-> phone_number, message_content |-> None,
                       error |-> Get(sent.result, "error", "Unknown error")]),
          cache |-> sent.cache, calls |-> sent.calls]
    ELSE [resp |-> OK([success |-> TRUE,
                       message |-> "Media sent successfully to " \o phone_number,
                       phone_number |-> phone_number, message_content |-> caption,
                       error |-> None]),
          cache |-> sent.cache, calls |-> sent.calls]

whatsapp_send_template_route(cache, template_name, template_params, phone_number, api_key, entity_id, conn, t) ==
    LET sent == send_to_whatsapp(cache, "", phone_number,
                                 [message_type |-> "template", media_url |-> None,
                                  template_name |-> template_name,
                                  template_params |-> template_params],
                                 api_key, entity_id, conn, t) IN
    IF ~sent.result.success
    THEN [resp |-> OK([success |-> FALSE, message |-> "Failed to send template",
                       phone_number |-> phone_number, message_content |-> None,
                       error |-> Get(sent.result, "error", "Unknown error")]),
          cache |-> sent.cache, calls |-> sent.calls]
    ELSE [resp |-> OK([success |-> TRUE,
                       message |-> "Template sent successfully to " \o phone_number,
                       phone_number |-> phone_number, message_content |-> None,
                       error |-> None]),
          cache |-> sent.cache, calls |-> sent.calls]

----------------------------------------------------------------------------
(* Requests to the whatsapp endpoints                                      *)

WhatsAppPhones == {Join(chars) : chars \in PhoneChars}
WhatsAppKeys == {None, PLACEHOLDER, "key1"}
MediaUrls == {"", "https://example.com/image.jpg"}
TemplateNames == {"", "hello_world"}
TemplateParams == {<<>>, [n \in {"1"} |-> "John Doe"]}

PhoneValid(phone_number) == validate_phone_number(phone_number).is_valid

WhatsAppSetup ==
    /\ focus = "whatsapp"
    /\ \E auth_token \in {"", "auth1"}, phone_number_id \in {"", "pn1"},
          entity_id \in {None, "user123"} :
       \E answer \in IF Truthy(auth_token) /\ Truthy(phone_number_id)
                     THEN SetupAnswers ELSE {SetupAnswer("none", Absent, Absent, Absent)} :
          \E r \in {whatsapp_setup_route(auth_token, phone_number_id, entity_id, answer)} :
          /\ req' = [op |-> "POST /whatsapp/setup", auth_token |-> auth_token,
                     phone_number_id |-> phone_number_id, entity_id |-> entity_id,
                     setup |-> answer, at |-> now]
          /\ resp' = r.resp
          /\ calls' = r.calls
    /\ UNCHANGED <<focus, now, caches, hist_store>>

WhatsAppGenerate ==
    /\ focus = "whatsapp"
    /\ \E llm \in LLMOutcomes :
          \E r \in {whatsapp_generate_route("+12345678901", llm)} :
          /\ req' = [op |-> "POST /whatsapp/generate", llm |-> llm, at |-> now]
          /\ resp' = r.resp
          /\ calls' = r.calls
    /\ UNCHANGED <<focus, now, caches, hist_store>>

WhatsAppSend ==
    /\ focus = "whatsapp"
    /\ \E phone_number \in WhatsAppPhones, api_key \in WhatsAppKeys, llm \in LLMOutcomes :
       \E conn \in ConnFor(WHATSAPP_SEND_MESSAGE, ~llm.raised /\ PhoneValid(phone_number)) :
          \E r \in {whatsapp_send_route(api_key_cache, phone_number, api_key, "default",
                                       llm, conn, now)} :
          /\ req' = [op |-> "POST /whatsapp/send", phone_number |-> phone_number,
                     api_key |-> api_key, llm |-> llm, conn |-> conn, at |-> now]
          /\ resp' = r.resp
          /\ calls' = r.calls
          /\ api_key_cache' = r.cache
    /\ UNCHANGED <<focus, now, slack_token_cache, linkedin_token_cache, hist_store>>

WhatsAppSendMedia ==
    /\ focus = "whatsapp"
    /\ \E phone_number \in WhatsAppPhones, api_key \in WhatsAppKeys, media_url \in MediaUrls :
       \E conn \in ConnFor(WHATSAPP_SEND_MEDIA, Truthy(media_url) /\ PhoneValid(phone_number)) :
          \E r \in {whatsapp_send_media_route(api_key_cache, media_url, "Your product image",
                                             phone_number, api_key, "default", conn, now)} :
          /\ req' = [op |-> "POST /whatsapp/send-media", phone_number |-> phone_number,
                     api_key |-> api_key, media_url |-> media_url, conn |-> conn, at |-> now]
          /\ resp' = r.resp
          /\ calls' = r.calls
          /\ api_key_cache' = r.cache
    /\ UNCHANGED <<focus, now, slack_token_cache, linkedin_token_cache, hist_store>>

WhatsAppSendTemplate ==
    /\ focus = "whatsapp"
    /\ \E phone_number \in WhatsAppPhones, api_key \in WhatsAppKeys,
          template_name \in TemplateNames, template_params \in TemplateParams :
       \E conn \in ConnFor(WHATSAPP_SEND_TEMPLATE_MESSAGE,
                           /\ Truthy(template_name)
                           /\ DOMAIN template_params # {}
                           /\ PhoneValid(phone_number)) :
          \E r \in {whatsapp_send_template_route(api_key_cache, template_name, template_params,
                                                phone_number, api_key, "default", conn, now)} :
          /\ req' = [op |-> "POST /whatsapp/send-template", phone_number |-> phone_number,
                     api_key |-> api_key, template_name |-> template_name,
                     template_params |-> template_params, conn |-> conn, at |-> now]
          /\ resp' = r.resp
          /\ calls' = r.calls
          /\ api_key_cache' = r.cache
    /\ UNCHANGED <<focus, now, slack_token_cache, linkedin_token_cache, hist_store>>

NextWhatsApp ==
    \/ WhatsAppSetup
    \/ WhatsAppGenerate
    \/ WhatsAppSend
    \/ WhatsAppSendMedia
    \/ WhatsAppSendTemplate

\* send_to_whatsapp called on its own, with every message_type a caller can
\* pass; media_url, template_name and template_params default to None
WhatsAppSendRequests ==
    {TextRequest}
    \cup {[message_type |-> "media", media_url |-> u, template_name |-> None,
           template_params |-> <<>>] : u \in MediaUrls \cup {None}}
    \cup {[message_type |-> "template", media_url |-> None, template_name |-> n,
           template_params |-> p] : n \in TemplateNames \cup {None}, p \in TemplateParams}
    \cup {[message_type |-> "video", media_url |-> "https://example.com/clip.mp4",
           template_name |-> None, template_params |-> <<>>]}

\* the action send_to_whatsapp executes for a request, if it executes one
WhatsAppActionOf(request) ==
    CASE request.message_type = "media" -> WHATSAPP_SEND_MEDIA
      [] request.message_type = "template" -> WHATSAPP_SEND_TEMPLATE_MESSAGE
      [] OTHER -> WHATSAPP_SEND_MESSAGE

\* the request passes the checks send_to_whatsapp makes before the send
WhatsAppRequestComplete(request) ==
    CASE request.message_type = "text" -> TRUE
      [] request.message_type = "media" -> Truthy(request.media_url)
      [] request.message_type = "template" ->
            Truthy(request.template_name) /\ DOMAIN request.template_params # {}
      [] OTHER -> FALSE

CallSendToWhatsApp ==
    /\ focus = "whatsapp"
    /\ \E phone_number \in WhatsAppPhones, api_key \in WhatsAppKeys,
          request \in WhatsAppSendRequests :
       \E conn \in ConnFor(WhatsAppActionOf(request),
                           WhatsAppRequestComplete(request) /\ PhoneValid(phone_number)) :
          \E r \in {send_to_whatsapp(api_key_cache, "Your order has shipped", phone_number,
                                     request, api_key, "default", conn, now)} :
          /\ req' = [op |-> "send_to_whatsapp", phone_number |-> phone_number,
                     api_key |-> api_key, request |-> request, conn |-> conn, at |-> now]
          /\ resp' = r.result
          /\ calls' = r.calls
          /\ api_key_cache' = r.cache
    /\ UNCHANGED <<focus, now, slack_token_cache, linkedin_token_cache, hist_store>>

\* two spellings of one number, and a number that is too short
WhatsAppSpellings == {Join(chars) : chars \in PhoneSpellings} \cup {"12345"}
\* the text, media and unknown-kind requests
WhatsAppSpelledRequests == {r \in WhatsAppSendRequests : r.message_type # "template"}

\* send_to_whatsapp called on its own with the spellings
CallSendToWhatsAppSpelled ==
    /\ focus = "whatsapp"
    /\ \E phone_number \in WhatsAppSpellings :
       \E is_valid \in {PhoneValid(phone_number)} :
       \E api_key \in WhatsAppKeys, request \in WhatsAppSpelledRequests :
       \E conn \in ConnFor(WhatsAppActionOf(request),
                           WhatsAppRequestComplete(request) /\ is_valid) :
          \E r \in {send_to_whatsapp(api_key_cache, "Your order has shipped", phone_number,
                                     request, api_key, "default", conn, now)} :
          /\ req' = [op |-> "send_to_whatsapp", phone_number |-> phone_number,
                     is_valid |-> is_valid, api_key |-> api_key, request |-> request,
                     conn |-> conn, at |-> now]
          /\ resp' = r.result
          /\ calls' = r.calls
          /\ api_key_cache' = r.cache
    /\ UNCHANGED <<focus, now, slack_token_cache, linkedin_token_cache, hist_store>>

----------------------------------------------------------------------------
(* gmail_service and the gmail routes                                     *)

GMAIL_SEND_EMAIL == "GMAIL_SEND_EMAIL"

\* a variant that does not initiate a connection again for an account that
\* is already active
setup_gmail_integration_skips_active(entity_id, answer) ==
    LET entity == [api |-> "composio", action |-> "get_entity", entity_id |-> entity_id]
        call == [api |-> "composio", action |-> "initiate_connection", app |-> "GMAIL",
                 entity_id |-> entity_id] IN
    IF answer.kind = "raise"
    THEN [result |-> [success |-> FALSE,
                      message |-> "Error setting up Gmail integration: " \o answer.text],
          calls |-> <<entity, call>>]
    ELSE IF answer.kind = "obj" /\ answer.status = "ACTIVE"
    THEN [result |-> [success |-> TRUE, message |-> "Gmail connection is active"],
          calls |-> <<entity>>]
    ELSE IF answer.kind = "obj" /\ answer.redirectUrl # Absent
    THEN [result |-> [success |-> TRUE, redirect_url |-> answer.redirectUrl,
                      message |-> "Please complete Gmail authentication by opening this URL in your browser"],
          calls |-> <<entity, call>>]
    ELSE [result |-> [success |-> FALSE, message |-> "Failed to setup Gmail integration"],
          calls |-> <<entity, call>>]

setup_gmail_integration(entity_id, answer) ==
    LET entity == [api |-> "composio", action |-> "get_entity", entity_id |-> entity_id]
        call == [api |-> "composio", action |-> "initiate_connection", app |-> "GMAIL",
                 entity_id |-> entity_id] IN
    IF answer.kind = "raise"
    THEN [result |-> [success |-> FALSE,
                      message |-> "Error setting up Gmail integration: " \o answer.text],
          calls |-> <<entity, call>>]
    ELSE IF answer.kind = "obj" /\ answer.redirectUrl # Absent
    THEN [result |-> [success |-> TRUE, redirect_url |-> answer.redirectUrl,
                      message |-> "Please complete Gmail authentication by opening this URL in your browser"],
          calls |-> <<entity, call>>]
    ELSE [result |-> [success |-> FALSE, message |-> "Failed to setup Gmail integration"],
          calls |-> <<entity, call>>]

\* text.strip().strip('"').strip('\'').strip() on the texts the LLM can answer
StripSubject(t) ==
    IF t = " \"Kickoff on Friday\" " THEN "Kickoff on Friday" ELSE Strip(t)

generate_subject(llm) ==
    IF llm.raised
    THEN [success |-> FALSE, error |-> "Error generating subject: " \o llm.text]
    ELSE [success |-> TRUE, subject |-> StripSubject(llm.text)]

generate_email(llm) ==
    IF llm.raised
    THEN [success |-> FALSE, error |-> "Error generating email: " \o llm.text]
    ELSE [success |-> TRUE, content |-> llm.text]

send_to_gmail(recipient_email, subject, message_body, entity_id, conn) ==
    LET call == [api |-> "composio", action |-> GMAIL_SEND_EMAIL,
                 params |-> [recipient_email |-> recipient_email, subject |-> subject,
                             body |-> message_body],
                 entity_id |-> entity_id]
        response == conn[GMAIL_SEND_EMAIL] IN
    IF response.kind = "raise"
    THEN [result |-> [success |-> FALSE,
                      error |-> "Error using Composio API for Gmail: " \o response.text],
          calls |-> <<call>>]
    ELSE IF ResponseSuccess(response)
    THEN [result |-> [success |-> TRUE,
                      message |-> "Email successfully sent to " \o recipient_email],
          calls |-> <<call>>]
    ELSE [result |-> [success |-> FALSE,
                      error |-> "Failed to send email: "
                                \o ResponseErrorOr(response, "Unknown error in response format")],
          calls |-> <<call>>]

\* request_entity_id is Absent when the request has no body
gmail_setup_route(request_entity_id, answer) ==
    LET entity_id == IF request_entity_id = Absent THEN "default" ELSE request_entity_id
        r == setup_gmail_integration(entity_id, answer) IN
    [resp |-> handle_service_result(r.result, "Failed to setup Gmail integration"),
     calls |-> r.calls]

\* EmailRequest declares recipient_email as a required field: FastAPI answers
\* 422 to a body without it, before the handler runs
gmail_generate_route(recipient_email, llm) ==
    IF recipient_email = Absent
    THEN [resp |-> HTTPError(422, "Field required"), calls |-> <<>>]
    ELSE
    LET result == generate_email(llm) IN
    IF ~result.success
    THEN [resp |-> OK([success |-> FALSE, message |-> "Failed to generate email",
                       email_content |-> None,
                       error |-> Get(result, "error", "Unknown error")]),
          calls |-> <<LLMCall("email")>>]
    ELSE [resp |-> OK([success |-> TRUE, message |-> "Email generated successfully",
                       email_content |-> result.content, error |-> None]),
          calls |-> <<LLMCall("email")>>]

\* a variant that gives up the send when the subject cannot be generated
gmail_send_route_aborts_without_subject(recipient_email, entity_id, llm, subject_llm, conn) ==
    LET gen_result == generate_email(llm) IN
    IF ~gen_result.success
    THEN [resp |-> OK([success |-> FALSE, message |-> "Failed to generate email",
                       email_content |-> None,
                       error |-> Get(gen_result, "error", "Unknown error")]),
          calls |-> <<LLMCall("email")>>]
    ELSE
    LET email_content == gen_result.content
        subject_result == generate_subject(subject_llm)
        sent == send_to_gmail(recipient_email, Get(subject_result, "subject", ""),
                              email_content, entity_id, conn)
        made == <<LLMCall("email"), LLMCall("subject")>> IN
    IF ~subject_result.success
    THEN [resp |-> OK([success |-> FALSE, message |-> "Failed to generate subject",
                       email_content |-> email_content,
                       error |-> subject_result.error]),
          calls |-> made]
    ELSE IF ~sent.result.success
    THEN [resp |-> OK([success |-> FALSE, message |-> "Failed to send email",
                       email_content |-> email_content,
                       error |-> Get(sent.result, "error", "Unknown error")]),
          calls |-> made \o sent.calls]
    ELSE [resp |-> OK([success |-> TRUE,
                       message |-> "Email sent successfully to " \o recipient_email,
                       email_content |-> email_content, error |-> None]),
          calls |-> made \o sent.calls]

gmail_send_route(recipient_email, entity_id, llm, subject_llm, conn) ==
    LET gen_result == generate_email(llm) IN
    IF ~gen_result.success
    THEN [resp |-> OK([success |-> FALSE, message |-> "Failed to generate email",
                       email_content |-> None,
                       error |-> Get(gen_result, "error", "Unknown error")]),
          calls |-> <<LLMCall("email")>>]
    ELSE
    LET email_content == gen_result.content
        subject_result == generate_subject(subject_llm)
        subject == IF subject_result.success THEN subject_result.subject
                   ELSE "Re: Your Request"
        sent == send_to_gmail(recipient_email, subject, email_content, entity_id, conn)
        made == <<LLMCall("email"), LLMCall("subject")>> \o sent.calls IN
    IF ~sent.result.success
    THEN [resp |-> OK([success |-> FALSE, message |-> "Failed to send email",
                       email_content |-> email_content,
                       error |-> Get(sent.result, "error", "Unknown error")]),
          calls |-> made]
    ELSE [resp |-> OK([success |-> TRUE,
                       message |-> "Email sent successfully to " \o recipient_email,
                       email_content |-> email_content, error |-> None]),
          calls |-> made]

----------------------------------------------------------------------------
(* Requests to the gmail endpoints                                         *)

SubjectOutcomes == {LLMRaise("quota exceeded"), LLMText(" \"Kickoff on Friday\" ")}

\* the setup request answered just before this one, if the last request was
\* one
PreviousGmailSetup ==
    IF req.op = "POST /gmail/setup"
    THEN [called |-> TRUE, entity_id |-> req.entity_id, setup |-> req.setup]
    ELSE [called |-> FALSE, entity_id |-> Absent,
          setup |-> SetupAnswer("none", Absent, Absent, Absent)]

GmailSetup ==
    /\ focus = "gmail"
    /\ \E entity_id \in {Absent, None, "user123"}, answer \in SetupAnswers :
          \E r \in {gmail_setup_route(entity_id, answer)} :
          /\ req' = [op |-> "POST /gmail/setup", entity_id |-> entity_id,
                     setup |-> answer, at |-> now, previous |-> PreviousGmailSetup]
          /\ resp' = r.resp
          /\ calls' = r.calls
    /\ UNCHANGED <<focus, now, caches, hist_store>>

\* the recipient_email field of a request body: left out, or an address
GmailRecipients == {Absent, "recipient@example.com"}

GmailGenerate ==
    /\ focus = "gmail"
    /\ \E recipient_email \in GmailRecipients :
       \E llm \in LLMFor(recipient_email # Absent) :
          \E r \in {gmail_generate_route(recipient_email, llm)} :
          /\ req' = [op |-> "POST /gmail/generate", recipient_email |-> recipient_email,
                     llm |-> llm, at |-> now]
          /\ resp' = r.resp
          /\ calls' = r.calls
    /\ UNCHANGED <<focus, now, caches, hist_store>>

GmailSend ==
    /\ focus = "gmail"
    /\ \E llm \in LLMOutcomes :
       \E subject_llm \in IF llm.raised THEN {LLMText("")} ELSE SubjectOutcomes :
       \E conn \in ConnFor(GMAIL_SEND_EMAIL, ~llm.raised) :
          \E r \in {gmail_send_route("recipient@example.com", "default", llm, subject_llm, conn)} :
          /\ req' = [op |-> "POST /gmail/send", llm |-> llm, subject_llm |-> subject_llm,
                     conn |-> conn, at |-> now]
          /\ resp' = r.resp
          /\ calls' = r.calls
    /\ UNCHANGED <<focus, now, caches, hist_store>>

NextGmail ==
    \/ GmailSetup
    \/ GmailGenerate
    \/ GmailSend

----------------------------------------------------------------------------
\* the state after start-up, one of `channels` being the one exercised
StartOf(channels) ==
    /\ focus \in channels
    /\ now = 0
    /\ slack_token_cache = EmptyCache
    /\ linkedin_token_cache = EmptyCache
    /\ api_key_cache = EmptyCache
    /\ req = [op |-> "start"]
    /\ resp = [value |-> None]
    /\ calls = <<>>
    /\ hist_store = EmptyCache

InitSlack == StartOf({"slack"})

StepSlack ==
    \/ NextSlack
    \/ Tick

SpecSlack == InitSlack /\ [][StepSlack]_vars

InitLinkedIn == StartOf({"linkedin"})

StepLinkedIn ==
    \/ NextLinkedIn
    \/ Tick

SpecLinkedIn == InitLinkedIn /\ [][StepLinkedIn]_vars

InitWhatsApp == StartOf({"whatsapp"})

StepWhatsApp ==
    \/ NextWhatsApp
    \/ Tick

SpecWhatsApp == InitWhatsApp /\ [][StepWhatsApp]_vars

\* the whatsapp endpoints and send_to_whatsapp called on its own
StepWhatsAppService ==
    \/ NextWhatsApp
    \/ CallSendToWhatsApp
    \/ Tick

SpecWhatsAppService == InitWhatsApp /\ [][StepWhatsAppService]_vars

\* send_to_whatsapp called on its own for numbers written in several ways
StepWhatsAppSpellings ==
    \/ CallSendToWhatsAppSpelled
    \/ Tick

SpecWhatsAppSpellings == InitWhatsApp /\ [][StepWhatsAppSpellings]_vars

----------------------------------------------------------------------------
(* Requests served concurrently on the slack token cache                   *)

\* store_token_for_channel and get_token_for_channel run statement by
\* statement by the requests in flight, with no lock on token_cache; req
\* holds the position and the locals of each request, resp what the call of
\* each returned or raised
Requests == {"r1", "r2"}
ConcurrentChannels == {"C1", "C2"}
ConcurrentTokens == {"xoxb-1", "xoxb-2"}
NoEntry == [token |-> None, expires |-> 0]
\* the locals of a call: `expires` is the expiry a store computed, `checked`
\* the clock a lookup compared the expiry with, `replaced` the entry the
\* assignment of the call wrote over or its del removed
Frame(pc, channel_id, bot_token, expires, cache_entry) ==
    [pc |-> pc, channel_id |-> channel_id, bot_token |-> bot_token,
     expires |-> expires, cache_entry |-> cache_entry, checked |-> 0,
     replaced |-> NoEntry]
IdleFrame == Frame("idle", None, None, 0, NoEntry)
\* what a call returned or raised; `replaced` is the entry its assignment
\* wrote over or its del removed, `overlapped` whether another request was
\* in flight on the same channel when the call ended
Returned(kind, value, replaced, overlapped) ==
    [kind |-> kind, value |-> value, replaced |-> replaced, overlapped |-> overlapped]
NothingReturned == Returned("pending", None, NoEntry, FALSE)
\* another request is in flight on the channel request r works on
Overlapped(r) ==
    \E q \in Requests \ {r} :
       /\ req.frames[q].pc # "idle"
       /\ req.frames[q].channel_id = req.frames[r].channel_id
EntryOf(cache, channel_id) ==
    IF channel_id \in DOMAIN cache THEN cache[channel_id] ELSE NoEntry

InitConcurrent ==
    /\ focus = "slack"
    /\ now = 0
    /\ slack_token_cache = EmptyCache
    /\ linkedin_token_cache = EmptyCache
    /\ api_key_cache = EmptyCache
    /\ req = [op |-> "concurrent", frames |-> [r \in Requests |-> IdleFrame]]
    /\ resp = [value |-> None, returned |-> [r \in Requests |-> NothingReturned]]
    /\ calls = <<>>
    /\ hist_store = EmptyCache

\* request r moves to `frame`, the cache becomes `cache`, and the call
\* returns `returned` when it ends with this statement
Statement(r, frame, cache, returned) ==
    /\ req' = [req EXCEPT !.frames[r] = frame]
    /\ resp' = [resp EXCEPT !.returned[r] = returned]
    /\ slack_token_cache' = cache
    /\ UNCHANGED <<focus, now, calls, linkedin_token_cache, api_key_cache, hist_store>>

\* a request calls store_token_for_channel(channel_id, bot_token)
CallStore(r) ==
    /\ req.frames[r].pc = "idle"
    /\ \E channel_id \in ConcurrentChannels, bot_token \in ConcurrentTokens :
          Statement(r, Frame("store:if", channel_id, bot_token, 0, NoEntry),
                    slack_token_cache, NothingReturned)

\* if channel_id and bot_token and bot_token != "string":
StoreIf(r) ==
    LET f == req.frames[r] IN
    /\ f.pc = "store:if"
    /\ IF Truthy(f.channel_id) /\ Truthy(f.bot_token) /\ f.bot_token # PLACEHOLDER
       THEN Statement(r, [f EXCEPT !.pc = "store:expires"], slack_token_cache,
                      NothingReturned)
       ELSE Statement(r, [f EXCEPT !.pc = "store:return"], slack_token_cache,
                      NothingReturned)

\* datetime.now() + timedelta(hours=24), evaluated before the assignment
StoreExpires(r) ==
    LET f == req.frames[r] IN
    /\ f.pc = "store:expires"
    /\ Statement(r, [f EXCEPT !.pc = "store:assign", !.expires = now + TTL_HOURS],
                 slack_token_cache, NothingReturned)

\* a variant that updates the token of an existing entry in place and
\* leaves the expiry of the entry as it is
StoreAssignInPlace(r) ==
    LET f == req.frames[r]
        expires == IF f.channel_id \in DOMAIN slack_token_cache
                   THEN slack_token_cache[f.channel_id].expires
                   ELSE f.expires IN
    /\ f.pc = "store:assign"
    /\ Statement(r, [f EXCEPT !.pc = "store:return",
                              !.replaced = EntryOf(slack_token_cache, f.channel_id)],
                 DictSet(slack_token_cache, f.channel_id,
                         [token |-> f.bot_token, expires |-> expires]),
                 NothingReturned)

\* token_cache[channel_id] = {"token": ..., "expires": ...}
StoreAssign(r) ==
    LET f == req.frames[r] IN
    /\ f.pc = "store:assign"
    /\ Statement(r, [f EXCEPT !.pc = "store:return",
                              !.replaced = EntryOf(slack_token_cache, f.channel_id)],
                 DictSet(slack_token_cache, f.channel_id,
                         [token |-> f.bot_token, expires |-> f.expires]),
                 NothingReturned)

\* logger.info(...) after the assignment, and the end of the function
StoreReturn(r) ==
    LET f == req.frames[r] IN
    /\ f.pc = "store:return"
    /\ Statement(r, IdleFrame, slack_token_cache,
                 Returned("none", None, f.replaced, Overlapped(r)))

\* a request calls get_token_for_channel(channel_id)
CallGet(r) ==
    /\ req.frames[r].pc = "idle"
    /\ \E channel_id \in ConcurrentChannels :
          Statement(r, Frame("get:in", channel_id, None, 0, NoEntry),
                    slack_token_cache, NothingReturned)

\* a variant that reads the entry without the membership test
GetInUnchecked(r) ==
    LET f == req.frames[r] IN
    /\ f.pc = "get:in"
    /\ Statement(r, [f EXCEPT !.pc = "get:entry"], slack_token_cache, NothingReturned)

\* if channel_id in token_cache:
GetIn(r) ==
    LET f == req.frames[r] IN
    /\ f.pc = "get:in"
    /\ IF f.channel_id \in DOMAIN slack_token_cache
       THEN Statement(r, [f EXCEPT !.pc = "get:entry"], slack_token_cache, NothingReturned)
       ELSE Statement(r, [f EXCEPT !.pc = "get:none"], slack_token_cache, NothingReturned)

\* cache_entry = token_cache[channel_id]; a missing key raises KeyError
GetEntry(r) ==
    LET f == req.frames[r] IN
    /\ f.pc = "get:entry"
    /\ IF f.channel_id \in DOMAIN slack_token_cache
       THEN Statement(r, [f EXCEPT !.pc = "get:expires",
                                   !.cache_entry = slack_token_cache[f.channel_id]],
                      slack_token_cache, NothingReturned)
       ELSE Statement(r, IdleFrame, slack_token_cache,
                      Returned("KeyError", None, NoEntry, Overlapped(r)))

\* if cache_entry["expires"] > datetime.now():
GetExpires(r) ==
    LET f == req.frames[r] IN
    /\ f.pc = "get:expires"
    /\ IF f.cache_entry.expires > now
       THEN Statement(r, [f EXCEPT !.pc = "get:token", !.checked = now],
                      slack_token_cache, NothingReturned)
       ELSE Statement(r, [f EXCEPT !.pc = "get:del", !.checked = now],
                      slack_token_cache, NothingReturned)

\* logger.info(...); return cache_entry["token"]
GetToken(r) ==
    LET f == req.frames[r] IN
    /\ f.pc = "get:token"
    /\ Statement(r, IdleFrame, slack_token_cache,
                 Returned("token", f.cache_entry.token, NoEntry, Overlapped(r)))

\* logger.info(...); del token_cache[channel_id]; a missing key raises
\* KeyError
GetDel(r) ==
    LET f == req.frames[r] IN
    /\ f.pc = "get:del"
    /\ IF f.channel_id \in DOMAIN slack_token_cache
       THEN Statement(r, [f EXCEPT !.pc = "get:none",
                                   !.replaced = slack_token_cache[f.channel_id]],
                      DictDel(slack_token_cache, f.channel_id), NothingReturned)
       ELSE Statement(r, IdleFrame, slack_token_cache,
                      Returned("KeyError", None, NoEntry, Overlapped(r)))

\* return None
GetNone(r) ==
    LET f == req.frames[r] IN
    /\ f.pc = "get:none"
    /\ Statement(r, IdleFrame, slack_token_cache,
                 Returned("none", None, f.replaced, Overlapped(r)))

\* time passes while the requests are in flight
ConcurrentTick ==
    /\ now + TickHours <= MaxTime
    /\ now' = now + TickHours
    /\ UNCHANGED <<focus, req, resp, calls, caches, hist_store>>

StepConcurrent ==
    \/ \E r \in Requests : CallStore(r)
    \/ \E r \in Requests : StoreIf(r)
    \/ \E r \in Requests : StoreExpires(r)
    \/ \E r \in Requests : StoreAssign(r)
    \/ \E r \in Requests : StoreReturn(r)
    \/ \E r \in Requests : CallGet(r)
    \/ \E r \in Requests : GetIn(r)
    \/ \E r \in Requests : GetEntry(r)
    \/ \E r \in Requests : GetExpires(r)
    \/ \E r \in Requests : GetToken(r)
    \/ \E r \in Requests : GetDel(r)
    \/ \E r \in Requests : GetNone(r)
    \/ ConcurrentTick

SpecConcurrent == InitConcurrent /\ [][StepConcurrent]_vars

\* the requests as the server runs them: every route is an async def whose
\* body never awaits and the services are synchronous, so the event loop
\* runs the call of one request from its first statement to its return
\* before it runs a statement of another; a request that has arrived waits
\* at its first statement
Running(r) == req.frames[r].pc \notin {"idle", "store:if", "get:in"}
Serialised(r) == \A q \in Requests \ {r} : ~Running(q)

StepServed ==
    \/ \E r \in Requests : CallStore(r)
    \/ \E r \in Requests : Serialised(r) /\ StoreIf(r)
    \/ \E r \in Requests : Serialised(r) /\ StoreExpires(r)
    \/ \E r \in Requests : Serialised(r) /\ StoreAssign(r)
    \/ \E r \in Requests : Serialised(r) /\ StoreReturn(r)
    \/ \E r \in Requests : CallGet(r)
    \/ \E r \in Requests : Serialised(r) /\ GetIn(r)
    \/ \E r \in Requests : Serialised(r) /\ GetEntry(r)
    \/ \E r \in Requests : Serialised(r) /\ GetExpires(r)
    \/ \E r \in Requests : Serialised(r) /\ GetToken(r)
    \/ \E r \in Requests : Serialised(r) /\ GetDel(r)
    \/ \E r \in Requests : Serialised(r) /\ GetNone(r)
    \/ ConcurrentTick

SpecServed == InitConcurrent /\ [][StepServed]_vars

\* validate_phone_number applied on its own to one of PhoneInputs
InitPhone ==
    /\ focus = "whatsapp"
    /\ now = 0
    /\ slack_token_cache = EmptyCache
    /\ linkedin_token_cache = EmptyCache
    /\ api_key_cache = EmptyCache
    /\ \E chars \in PhoneInputs : req = [op |-> "start", phone_number |-> Join(chars)]
    /\ resp = [value |-> None]
    /\ calls = <<>>
    /\ hist_store = EmptyCache

CallValidatePhoneNumber ==
    /\ req.op = "start"
    /\ "phone_number" \in DOMAIN req
    /\ req' = [op |-> "validate_phone_number", phone_number |-> req.phone_number]
    /\ resp' = validate_phone_number(req.phone_number)
    /\ calls' = <<>>
    /\ UNCHANGED <<focus, now, caches, hist_store>>

SpecPhone == InitPhone /\ [][CallValidatePhoneNumber]_vars

InitGmail == StartOf({"gmail"})

StepGmail ==
    \/ NextGmail
    \/ Tick

SpecGmail == InitGmail /\ [][StepGmail]_vars

Init == StartOf({"gmail", "slack", "linkedin", "whatsapp"})

Next ==
    \/ NextGmail
    \/ NextSlack
    \/ NextLinkedIn
    \/ NextWhatsApp
    \/ Tick

Spec == Init /\ [][Next]_vars

----------------------------------------------------------------------------
(* Claims about the slack channel listing                                  *)

\* the request just answered is a channel listing without a bot token
C9_NoTokenListing ==
    /\ req.op = "GET /slack/channels"
    /\ req.bot_token \in {Absent, ""}

\* C9: a channel listing requested with no bot token does not fail and does
\* not query Slack: it is answered with the channels of the configured
\* directory SLACK_CHANNELS.
C9_StaticDirectoryFallback ==
    C9_NoTokenListing =>
        /\ resp.status = 200
        /\ resp.body.channels = <<SLACK_CHANNELS["1"], SLACK_CHANNELS["2"], SLACK_CHANNELS["3"]>>
        /\ calls = <<>>

\* the listing just answered was made with a token and Slack said ok=false
C10_NotOkListing ==
    /\ req.op = "GET /slack/channels"
    /\ req.bot_token \notin {Absent, "", PLACEHOLDER}
    /\ req.slack.kind = "http"
    /\ req.slack.status = 200
    /\ ~req.slack.ok

\* the name the listing gives to an error class
C10_NameOf(error) ==
    CASE error = "missing_scope" ->
            "Bot token missing required scopes: channels:read, groups:read"
      [] error \in {"invalid_auth", "not_authed"} -> "Invalid or expired bot token"
      [] OTHER -> "Slack API error: " \o error

C10_ListingStep ==
    C10_NotOkListing' =>
        /\ resp'.status = 200
        /\ Len(resp'.body.channels) = 1
        /\ resp'.body.channels[1].id = "ERROR"
        /\ req'.slack.error # Absent =>
              resp'.body.channels[1].name = C10_NameOf(req'.slack.error)
        /\ slack_token_cache' = slack_token_cache

\* C10: when Slack answers the listing with HTTP 200 and ok=false, the
\* channels returned are exactly one element with id "ERROR" whose name is
\* chosen by the error class, and the token cache is left as it was.
C10_ErrorListing == [][C10_ListingStep]_vars

C10_Witness ==
    /\ C10_NotOkListing
    /\ req.slack.error = "ratelimited"
    /\ resp.body.channels = <<[id |-> "ERROR", name |-> "Slack API error: ratelimited"]>>
    /\ slack_token_cache # EmptyCache

----------------------------------------------------------------------------
(* Claims about the linkedin fallback chain                                *)

ConnectorCalls(cs) == SelectSeq(cs, LAMBDA c : c.api = "composio")

\* the request just answered ran a fallback chain: its candidate names and
\* the prefix of the error it reports for an exception
C4_ChainOps ==
    {"POST /linkedin/search-profiles", "POST /linkedin/connect",
     "POST /linkedin/message", "POST /linkedin/post"}
C4_Names ==
    CASE req.op = "POST /linkedin/search-profiles" -> LINKEDIN_SEARCH
      [] req.op = "POST /linkedin/connect" -> LINKEDIN_CONNECT
      [] req.op = "POST /linkedin/message" -> LINKEDIN_MESSAGE
      [] OTHER -> LINKEDIN_POST
C4_ChainRan ==
    /\ req.op \in C4_ChainOps
    /\ UsableToken(req.access_token)
    /\ req.op \in {"POST /linkedin/message", "POST /linkedin/post"} => ~req.llm.raised
C4_Raised(i) == req.conn[C4_Names[i]].kind = "raise"
C4_ReportsCandidateException ==
    /\ resp.status = 200
    /\ ~resp.body.success
    /\ \E i \in 1..3, prefix \in {"Error searching LinkedIn profiles: ",
                                 "Error sending connection request: ",
                                 "Error sending message: ", "Error creating post: "} :
          C4_Raised(i) /\ resp.body.error = prefix \o req.conn[C4_Names[i]].text

\* C4: a LinkedIn operation with the action-name fallback invokes its
\* candidate names in the listed order, invokes candidate i+1 if and only if
\* candidate i raised, and reports a candidate's exception as its failure
\* only after all three candidates have been invoked and have raised.
C4_FallbackOrder ==
    C4_ChainRan =>
        LET invoked == ConnectorCalls(calls) IN
        /\ Len(invoked) \in 1..3
        /\ \A i \in 1..Len(invoked) : invoked[i].action = C4_Names[i]
        /\ \A i \in 1..2 : (Len(invoked) >= i + 1) <=> (Len(invoked) >= i /\ C4_Raised(i))
        /\ C4_ReportsCandidateException =>
              Len(invoked) = 3 /\ \A i \in 1..3 : C4_Raised(i)

C4_Witness ==
    /\ req.op = "POST /linkedin/message"
    /\ C4_ChainRan
    /\ \A i \in 1..3 : C4_Raised(i)
    /\ Len(ConnectorCalls(calls)) = 3
    /\ resp.body.error = "Error sending message: Action LINKEDIN_MESSAGE_PROFILE not found"

----------------------------------------------------------------------------
(* Claims about the responses of the endpoints                             *)

\* the request just answered generates a text and then delivers it, and the
\* text was generated
C5_Ops ==
    {"POST /gmail/send", "POST /slack/send", "POST /whatsapp/send",
     "POST /linkedin/message", "POST /linkedin/post"}
C5_Generated ==
    /\ req.op \in C5_Ops
    /\ req.op \in {"POST /linkedin/message", "POST /linkedin/post"} =>
          UsableToken(req.access_token)
    /\ ~req.llm.raised

\* the connector was asked and its answer shows a success the channel reads
C5_Delivered ==
    LET invoked == ConnectorCalls(calls) IN
    /\ invoked # <<>>
    /\ LET answer == req.conn[invoked[Len(invoked)].action] IN
       \/ answer = ObjOk
       \/ /\ answer = DictOk
          /\ req.op \notin {"POST /linkedin/message", "POST /linkedin/post"}

\* the generated text as the response of the endpoint carries it
C5_Content ==
    CASE req.op = "POST /gmail/send" -> resp.body.email_content
      [] req.op \in {"POST /slack/send", "POST /whatsapp/send"} -> resp.body.message_content
      [] req.op = "POST /linkedin/message" -> resp.body.data.message_content
      [] OTHER -> resp.body.data.post_content
C5_GeneratedText ==
    IF req.op \in {"POST /linkedin/message", "POST /linkedin/post"}
    THEN Strip(req.llm.text) ELSE req.llm.text

\* C5: in every generate-then-deliver endpoint, when the text was generated
\* and the delivery failed, the response has success=false, a non-empty
\* error and still carries the generated text.
C5_PartialFailureKeepsContent ==
    (C5_Generated /\ ~C5_Delivered) =>
        /\ resp.status = 200
        /\ ~resp.body.success
        /\ Truthy(resp.body.error)
        /\ C5_Content = C5_GeneratedText

C5_Witness ==
    /\ req.op = "POST /linkedin/message"
    /\ C5_Generated
    /\ req.llm.text = " Hi team "
    /\ req.conn["LINKEDIN_SENDS_MESSAGE"] = DictErr
    /\ ~resp.body.success
    /\ resp.body.error = "Failed to send message: not connected"
    /\ resp.body.data.message_content = "Hi team"

\* the result the service operation of the request just answered returned,
\* for the operations whose result depends on the request alone
C6_Ops ==
    {"POST /gmail/setup", "POST /slack/setup", "POST /linkedin/setup",
     "POST /gmail/generate", "POST /slack/generate", "POST /whatsapp/generate"}
C6_Result ==
    CASE req.op = "POST /gmail/setup" ->
            setup_gmail_integration(IF req.entity_id = Absent THEN "default" ELSE req.entity_id,
                                    req.setup).result
      [] req.op = "POST /slack/setup" -> setup_slack_integration(req.setup).result
      [] req.op = "POST /linkedin/setup" -> setup_linkedin_integration(req.setup).result
      [] req.op = "POST /gmail/generate" -> generate_email(req.llm)
      [] req.op = "POST /slack/generate" -> slack_generate_message(req.llm)
      [] OTHER -> whatsapp_generate_message(req.llm)
C6_UpstreamFailed ==
    /\ req.op \in C6_Ops
    /\ IF "setup" \in DOMAIN req THEN req.setup.kind \in {"raise", "none"} ELSE req.llm.raised

\* C6: a service operation whose call of the LLM or of the connector failed
\* returns a result with success=false and an error field carrying the
\* message.
C6_FailureCarriesError ==
    C6_UpstreamFailed =>
        /\ ~C6_Result.success
        /\ "error" \in DOMAIN C6_Result
        /\ Truthy(C6_Result.error)

\* the request just answered carries an input that its route checks itself
C7_LinkedInTokenOps ==
    {"POST /linkedin/search-profiles", "POST /linkedin/connect",
     "POST /linkedin/message", "POST /linkedin/post"}
C7_RouteChecked ==
    \/ req.op = "GET /slack/channels" /\ req.bot_token \in {"", PLACEHOLDER}
    \/ req.op = "POST /whatsapp/setup" /\ "" \in {req.auth_token, req.phone_number_id}
    \/ req.op \in C7_LinkedInTokenOps /\ req.access_token \in {"", PLACEHOLDER}

\* the step answers a slack send that supplies no usable bot token while
\* none is cached for its channel
C7_NoSlackToken ==
    /\ req'.op = "POST /slack/send"
    /\ req'.bot_token \in {None, "", PLACEHOLDER}
    /\ \/ req'.channel_id \notin DOMAIN slack_token_cache
       \/ slack_token_cache[req'.channel_id].expires <= now

\* the request just answered is a whatsapp send to a number with fewer than
\* ten digits
C7_MalformedPhone ==
    /\ req.op \in {"POST /whatsapp/send", "POST /whatsapp/send-media",
                   "POST /whatsapp/send-template"}
    /\ Len(SelectSeq(Chars(req.phone_number), IsDigit)) < 10

\* C7 as stated: every client input error is answered with HTTP 400, a slack
\* send without a usable bot token and a whatsapp send to a malformed phone
\* number included.
C7_InputErrorsAre400 ==
    [][(C7_RouteChecked' \/ C7_NoSlackToken \/ C7_MalformedPhone') => resp'.status = 400]_vars

C7_Step ==
    /\ C7_RouteChecked' => (resp'.status = 400 /\ Truthy(resp'.detail))
    /\ (C7_NoSlackToken \/ C7_MalformedPhone') =>
          /\ resp'.status = 200
          /\ ~resp'.body.success
          /\ Truthy(resp'.body.error)
          /\ ConnectorCalls(calls') = <<>>

\* C7: an input that a route checks itself (bot_token of the channel
\* listing, auth_token and phone_number_id of the whatsapp setup,
\* access_token of the linkedin operations) is answered with HTTP 400; a
\* slack send without a usable bot token and a whatsapp send to a malformed
\* phone number are answered with HTTP 200, success=false and a non-empty
\* error, and no connector call is made.
C7_InputErrorStatus == [][C7_Step]_vars

C7_Witness ==
    /\ req.op = "POST /whatsapp/send"
    /\ req.phone_number = "12345"
    /\ ~req.llm.raised
    /\ resp.status = 200
    /\ resp.body.error = "Phone number 12345 is too short. It should include country code and at least 10 digits."

\* the request just answered is one that C8 names
C8_Rejected ==
    \/ req.op = "POST /whatsapp/setup" /\ "" \in {req.auth_token, req.phone_number_id}
    \/ req.op \in C7_LinkedInTokenOps /\ req.access_token \in {"", PLACEHOLDER}

C8_Step ==
    C8_Rejected' =>
        /\ resp'.status = 400
        /\ calls' = <<>>
        /\ caches' = caches

\* C8: a whatsapp setup with an empty auth_token or phone_number_id and a
\* linkedin search, connect, message or post with an empty or placeholder
\* access_token are answered with HTTP 400, without any LLM or connector
\* call and without a write to a credential cache.
C8_RejectedBeforeAnyCall == [][C8_Step]_vars

C8_Witness ==
    /\ req.op = "POST /linkedin/connect"
    /\ req.access_token = PLACEHOLDER
    /\ resp.status = 400
    /\ calls = <<>>
    /\ "default" \in DOMAIN linkedin_token_cache

----------------------------------------------------------------------------
(* Claims about the gmail endpoints                                        *)

\* the request just answered is an email generation whose body holds only
\* content_prompt and is_formal
C11_BodyWithoutRecipient ==
    /\ req.op = "POST /gmail/generate"
    /\ req.recipient_email = Absent

\* C11: POST /gmail/generate needs only content_prompt: a body holding just
\* content_prompt and is_formal is accepted and answered with success=true
\* and a non-empty email_content.
C11_ContentPromptSuffices ==
    C11_BodyWithoutRecipient =>
        /\ resp.status = 200
        /\ resp.body.success
        /\ Truthy(resp.body.email_content)

----------------------------------------------------------------------------
(* Claims about the credential caches as the endpoints use them            *)

\* the operations that take a secret, the cache key and the secret of a
\* request r of one of them
C12_SlackOps == {"POST /slack/send"}
C12_WhatsAppOps ==
    {"POST /whatsapp/send", "POST /whatsapp/send-media", "POST /whatsapp/send-template"}
C12_Ops == C12_SlackOps \cup C7_LinkedInTokenOps \cup C12_WhatsAppOps
C12_Key(r) ==
    CASE r.op \in C12_SlackOps -> r.channel_id
      [] r.op \in C7_LinkedInTokenOps -> r.entity_id
      [] OTHER -> r.phone_number
C12_Secret(r) ==
    CASE r.op \in C12_SlackOps -> r.bot_token
      [] r.op \in C7_LinkedInTokenOps -> r.access_token
      [] OTHER -> r.api_key

\* the step answers a request that omits the secret (or sends the
\* placeholder) while the cache of its channel holds, for the key of the
\* request, a secret stored less than 24 hours before
C12_OmitsCachedSecret ==
    /\ req'.op \in C12_Ops
    /\ ~Usable(C12_Secret(req'))
    /\ C12_Key(req') \in DOMAIN FocusCache
    /\ FocusCache[C12_Key(req')].expires > now

\* nothing but the secret can stop request r: its text is generated and its
\* other inputs are well-formed
C12_OtherwiseValid(r) ==
    /\ "llm" \in DOMAIN r => ~r.llm.raised
    /\ r.op \in C12_WhatsAppOps => PhoneValid(r.phone_number)
    /\ r.op = "POST /whatsapp/send-media" => Truthy(r.media_url)
    /\ r.op = "POST /whatsapp/send-template" =>
          (Truthy(r.template_name) /\ DOMAIN r.template_params # {})

C12_Step ==
    C12_OmitsCachedSecret =>
        /\ resp'.status = 200
        /\ C12_OtherwiseValid(req') => ConnectorCalls(calls') # <<>>
        /\ req'.op \in C12_SlackOps =>
              \A i \in DOMAIN calls' :
                 calls'[i].api = "composio" =>
                    calls'[i].params.token = FocusCache[C12_Key(req')].token

\* C12: in every channel with a credential cache (slack, linkedin,
\* whatsapp), a request that omits the secret, or sends the placeholder, for
\* a key whose secret a request supplied less than 24 hours before is
\* carried out with the cached secret: it is not rejected for the missing
\* credential and the connector is called.
C12_CachedSecretIsUsed == [][C12_Step]_vars

\* the step answers a send or search whose delivery failed: the connector
\* was called and its last answer is an exception or shows no success
C13_DeliveryFailed ==
    /\ req'.op \in C12_Ops
    /\ LET invoked == ConnectorCalls(calls') IN
       /\ invoked # <<>>
       /\ LET answer == req'.conn[invoked[Len(invoked)].action] IN
          \/ answer.kind = "raise"
          \/ /\ answer.successfull # "truthy"
             /\ answer.success # "truthy"
             /\ answer.data # "truthy"

\* C13: a cache entry is created only by a call that succeeds: after a send
\* or search whose delivery to the connector fails, by an exception or a
\* non-success response, the cache holds an entry for the key of the call
\* only if it held one before the call.
C13_FailedCallCreatesNoEntry ==
    [][C13_DeliveryFailed =>
          (C12_Key(req') \in DOMAIN FocusCache' => C12_Key(req') \in DOMAIN FocusCache)]_vars

\* what a step may do to the entry of key k: remove it only by a lookup of
\* k at or after its expiry, change it only by a store of a usable secret
\* for k
C14_EntryStep(k) ==
    /\ (k \in DOMAIN FocusCache /\ k \notin DOMAIN FocusCache')
          => /\ req'.op = "lookup"
             /\ req'.key = k
             /\ FocusCache[k].expires <= now
    /\ (k \in DOMAIN FocusCache /\ k \in DOMAIN FocusCache' /\ FocusCache'[k] # FocusCache[k])
          => /\ req'.op = "store"
             /\ req'.key = k
             /\ Usable(req'.secret)

\* a lookup of k before its expiry, and any call for another key, leave the
\* entry of k as it was
C14_Frame(k) ==
    (/\ k \in DOMAIN FocusCache
     /\ \/ req'.op = "lookup" /\ req'.key = k /\ FocusCache[k].expires > now
        \/ req'.op \in {"lookup", "store"} /\ req'.key # k)
    => (k \in DOMAIN FocusCache' /\ FocusCache'[k] = FocusCache[k])

\* C14: in each of the three caches, an entry is removed only by a lookup
\* of its key made at or after its expiry, and its secret and expiry change
\* only by an effective store for its key; a lookup before expiry does not
\* extend the expiry, and stores, lookups and evictions for another key
\* leave the entry unchanged.
C14_EntryFrame == [][\A k \in CacheKeys : C14_EntryStep(k) /\ C14_Frame(k)]_vars

\* C14 witness: a lookup of k1 made 12 hours or more after its store
\* returned the secret, and the entry still expires 24 hours after the
\* store, next to an entry for k2.
C14_Witness ==
    /\ req.op = "lookup" /\ req.key = "k1"
    /\ resp.value # None
    /\ "k1" \in DOMAIN hist_store
    /\ req.at > hist_store["k1"].at
    /\ FocusCache["k1"].expires = hist_store["k1"].at + TTL_HOURS
    /\ "k2" \in DOMAIN FocusCache

----------------------------------------------------------------------------
(* Claims about the whatsapp sends                                         *)

\* the digits of the number validate_phone_number was applied to, in their
\* original order
C15_Digits == SelectSeq(Chars(req.phone_number), IsDigit)

\* C15: validate_phone_number rejects, with an error message, every input
\* that is empty or keeps fewer than 10 digits once its non-digit characters
\* are removed; for every other input it returns the digits of the input in
\* their original order, at least 10 characters, none of them a '+' or
\* another non-digit character.
C15_DigitsOnlyOrRejected ==
    req.op = "validate_phone_number" =>
        IF req.phone_number = "" \/ Len(C15_Digits) < 10
        THEN /\ ~resp.is_valid
             /\ Truthy(resp.result)
        ELSE /\ resp.is_valid
             /\ resp.result = Join(C15_Digits)
             /\ Len(C15_Digits) >= 10
             /\ \A i \in DOMAIN C15_Digits : C15_Digits[i] # "+" /\ IsDigit(C15_Digits[i])

\* C15 witness: a number with a '+', a '-' and exactly ten digits was
\* accepted and came back as its ten digits.
C15_Witness ==
    /\ req.op = "validate_phone_number"
    /\ req.phone_number = "+1234-555019"
    /\ resp.is_valid
    /\ resp.result = "1234555019"

\* the whatsapp sends, and for the one just answered: its message kind, its
\* result, and whether its inputs are complete
C16_Ops == C12_WhatsAppOps \cup {"send_to_whatsapp"}
C16_Request ==
    CASE req.op = "send_to_whatsapp" -> req.request
      [] req.op = "POST /whatsapp/send-media" ->
            [message_type |-> "media", media_url |-> req.media_url]
      [] req.op = "POST /whatsapp/send-template" ->
            [message_type |-> "template", template_name |-> req.template_name,
             template_params |-> req.template_params]
      [] OTHER -> [message_type |-> "text"]
C16_Result == IF req.op = "send_to_whatsapp" THEN resp ELSE resp.body
C16_ActionName ==
    CASE C16_Request.message_type = "text" -> "WHATSAPP_SEND_MESSAGE"
      [] C16_Request.message_type = "media" -> "WHATSAPP_SEND_MEDIA"
      [] C16_Request.message_type = "template" -> "WHATSAPP_SEND_TEMPLATE_MESSAGE"
      [] OTHER -> "none"
C16_Incomplete ==
    \/ C16_Request.message_type \notin {"text", "media", "template"}
    \/ C16_Request.message_type = "media" /\ C16_Request.media_url \in {None, ""}
    \/ /\ C16_Request.message_type = "template"
       /\ \/ C16_Request.template_name \in {None, ""}
          \/ DOMAIN C16_Request.template_params = {}
    \/ Len(SelectSeq(Chars(req.phone_number), IsDigit)) < 10

\* C16: every connector call of a whatsapp send names the action of its
\* message kind (text WHATSAPP_SEND_MESSAGE, media WHATSAPP_SEND_MEDIA,
\* template WHATSAPP_SEND_TEMPLATE_MESSAGE) with a to_number made of the
\* digits of the phone number, at least 10; a send with an unknown kind, a
\* media send without a URL, a template send without a name or parameters
\* and a send to an invalid phone number make no connector call and return
\* success=false with an error.
C16_SendActionAndNumber ==
    req.op \in C16_Ops =>
        LET invoked == ConnectorCalls(calls)
            digits == SelectSeq(Chars(req.phone_number), IsDigit) IN
        /\ \A i \in DOMAIN invoked :
              /\ invoked[i].action = C16_ActionName
              /\ invoked[i].params.to_number = Join(digits)
              /\ Len(digits) >= 10
              /\ \A j \in DOMAIN digits : IsDigit(digits[j])
        /\ C16_Incomplete =>
              /\ invoked = <<>>
              /\ ~C16_Result.success
              /\ Truthy(C16_Result.error)

\* C16 witness: a template send to "+12345678901" reached the connector
\* under the template action with the digits of the number.
C16_Witness ==
    /\ req.op = "send_to_whatsapp"
    /\ req.request.message_type = "template"
    /\ req.phone_number = "+12345678901"
    /\ Len(calls) = 1
    /\ calls[1].action = "WHATSAPP_SEND_TEMPLATE_MESSAGE"
    /\ calls[1].params.to_number = "12345678901"

----------------------------------------------------------------------------
(* Claims about the gmail send and about retries                           *)

\* the request just answered is an email send whose body was generated and
\* whose subject generation failed
C17_SubjectFailed ==
    /\ req.op = "POST /gmail/send"
    /\ ~req.llm.raised
    /\ req.subject_llm.raised

\* C17: in POST /gmail/send, when the body is generated and the subject
\* generation fails, send_to_gmail is still invoked, exactly once, with the
\* subject "Re: Your Request" and the generated body, and the response
\* reports the outcome of that delivery only: success if and only if the
\* connector's answer shows one, and otherwise the delivery's error.
C17_FallbackSubject ==
    C17_SubjectFailed =>
        LET invoked == ConnectorCalls(calls)
            answer == req.conn[GMAIL_SEND_EMAIL] IN
        /\ Len(invoked) = 1
        /\ invoked[1].action = GMAIL_SEND_EMAIL
        /\ invoked[1].params.subject = "Re: Your Request"
        /\ invoked[1].params.body = req.llm.text
        /\ resp.status = 200
        /\ resp.body.email_content = req.llm.text
        /\ resp.body.success <=> (answer.kind # "raise" /\ ResponseSuccess(answer))
        /\ ~resp.body.success =>
              resp.body.error =
                 IF answer.kind = "raise"
                 THEN "Error using Composio API for Gmail: " \o answer.text
                 ELSE "Failed to send email: "
                      \o ResponseErrorOr(answer, "Unknown error in response format")

\* C17 witness: the subject generation raised, the email went out under the
\* fallback subject and the request succeeded.
C17_Witness ==
    /\ C17_SubjectFailed
    /\ req.llm.text = " Hi team "
    /\ req.conn[GMAIL_SEND_EMAIL] = ObjOk
    /\ resp.body.success
    /\ Len(calls) = 3
    /\ calls[3].params.subject = "Re: Your Request"

\* the request just answered is a request to an endpoint
C18_Answered == req.op \notin {"start", "tick"}
C18_SetupOps ==
    {"POST /gmail/setup", "POST /slack/setup", "POST /linkedin/setup", "POST /whatsapp/setup"}

\* C18: within one request nothing is retried: the LLM is asked for each
\* text (body, subject, message) at most once, no connector action and no
\* fallback candidate is invoked twice, a LinkedIn operation makes at most
\* three connector calls and takes them from its candidate names, a send of
\* another channel makes at most one, and a request makes at most four
\* external calls in all.
C18_NothingRetried ==
    C18_Answered =>
        LET invoked == ConnectorCalls(calls) IN
        /\ \A i, j \in DOMAIN calls :
              (calls[i].api = calls[j].api /\ calls[i].action = calls[j].action) => i = j
        /\ req.op \in C4_ChainOps =>
              /\ Len(invoked) <= 3
              /\ \A i \in DOMAIN invoked : \E n \in 1..3 : invoked[i].action = C4_Names[n]
        /\ req.op \notin C4_ChainOps \cup C18_SetupOps => Len(invoked) <= 1
        /\ Len(calls) <= 4

\* C18 witness: a LinkedIn message whose three candidate names all raised
\* made one LLM call and three connector calls, one per name.
C18_Witness ==
    /\ req.op = "POST /linkedin/message"
    /\ \A n \in 1..3 : req.conn[LINKEDIN_MESSAGE[n]].kind = "raise"
    /\ Len(calls) = 4
    /\ calls[1].api = "llm"
    /\ \A n \in 1..3 : calls[n + 1].action = LINKEDIN_MESSAGE[n]

----------------------------------------------------------------------------
(* Claims about the setup endpoints                                        *)

\* the request just answered is a setup that reached the connector
C19_SetupAnswered ==
    /\ req.op \in C18_SetupOps
    /\ req.op = "POST /whatsapp/setup" => "" \notin {req.auth_token, req.phone_number_id}
C19_ActiveConfirmations ==
    {"Gmail connection is active", "Slack connection is active",
     "LinkedIn connection is active", "WhatsApp connection is active"}

\* the redirect URL as the response of a setup endpoint carries it
C19_RedirectUrl ==
    IF req.op = "POST /linkedin/setup"
    THEN resp.body.data.redirect_url
    ELSE resp.body.redirect_url

\* C19: in every channel's setup, a connector answer that carries a redirect
\* URL yields success with that URL as redirect_url, and an answer without
\* a redirect URL whose connected account has status ACTIVE yields success
\* with the confirmation that the connection is active.
C19_RedirectOrActive ==
    C19_SetupAnswered =>
        /\ (req.setup.kind = "obj" /\ req.setup.redirectUrl \notin {Absent, None})
              => /\ resp.status = 200
                 /\ resp.body.success
                 /\ C19_RedirectUrl = req.setup.redirectUrl
        /\ (/\ req.setup.kind = "obj"
            /\ req.setup.redirectUrl \in {Absent, None}
            /\ req.setup.status = "ACTIVE")
              => /\ resp.status = 200
                 /\ resp.body.success
                 /\ resp.body.message \in C19_ActiveConfirmations

\* the request just answered is a setup that takes an entity_id and reached
\* the connector, and the entity id its caller means
C20_SetupWithEntity ==
    /\ req.op \in {"POST /gmail/setup", "POST /whatsapp/setup", "POST /linkedin/setup"}
    /\ req.op = "POST /whatsapp/setup" => "" \notin {req.auth_token, req.phone_number_id}
C20_EntityMeant == IF req.entity_id \in {Absent, None} THEN "default" ELSE req.entity_id

\* C20: in the gmail, whatsapp and linkedin setup, the entity id passed to
\* the connector's initiate_connection is the entity_id of the caller, or
\* "default" when the caller gave none.
C20_EntityPassedOn ==
    C20_SetupWithEntity =>
        /\ \E i \in DOMAIN calls : calls[i].action = "initiate_connection"
        /\ \A i \in DOMAIN calls :
              calls[i].action = "initiate_connection" => calls[i].entity_id = C20_EntityMeant

\* the setup endpoints that answer through handle_service_result, and the
\* result of the service for the setup just answered
C21_Ops == {"POST /gmail/setup", "POST /slack/setup", "POST /whatsapp/setup"}
C21_Wrapped ==
    /\ req.op \in C21_Ops
    /\ req.op = "POST /whatsapp/setup" => "" \notin {req.auth_token, req.phone_number_id}
C21_Result ==
    CASE req.op = "POST /gmail/setup" ->
            setup_gmail_integration(IF req.entity_id = Absent THEN "default" ELSE req.entity_id,
                                    req.setup).result
      [] req.op = "POST /slack/setup" -> setup_slack_integration(req.setup).result
      [] OTHER ->
            setup_whatsapp_integration(req.auth_token, req.phone_number_id,
                                       IF Truthy(req.entity_id) THEN req.entity_id ELSE "default",
                                       req.setup).result
C21_Prefixes ==
    {"Failed to setup Gmail integration", "Failed to setup Slack integration",
     "Failed to setup WhatsApp integration"}

\* text occurs in a detail of the form "<prefix>: <reported>"
C21_Includes(detail, text) ==
    \E p \in C21_Prefixes, t \in {"Unknown error", text} :
        /\ detail = p \o ": " \o t
        /\ text \in {p, t, detail}

\* C21: in the gmail, slack and whatsapp setup, a service result with
\* success=false is answered with HTTP 500 whose detail includes the failure
\* text the service reported, and a result with success=true is returned
\* unchanged.
C21_FailureTextInDetail ==
    C21_Wrapped =>
        IF C21_Result.success
        THEN resp = OK(C21_Result)
        ELSE /\ resp.status = 500
             /\ C21_Includes(resp.detail, C21_Result.message)

----------------------------------------------------------------------------
(* Claims about the generate endpoints                                     *)

C22_Ops == {"POST /gmail/generate", "POST /slack/generate", "POST /whatsapp/generate"}

\* the generated-content field of the response of a generate endpoint
C22_Content ==
    IF req.op = "POST /gmail/generate" THEN resp.body.email_content
    ELSE resp.body.message_content

\* C22: in every HTTP 200 response of a generate endpoint (gmail, slack,
\* whatsapp), success=true implies that the generated-content field is
\* present, success=false implies that error is present, and the two are
\* never both absent.
C22_ContentOrError ==
    (req.op \in C22_Ops /\ resp.status = 200) =>
        /\ resp.body.success => C22_Content # None
        /\ ~resp.body.success => (resp.body.error # None /\ Truthy(resp.body.error))
        /\ ~(C22_Content = None /\ resp.body.error = None)

\* C22 witness: a slack generation whose LLM call raised is answered 200
\* with success=false, no content and the error of the generation.
C22_Witness ==
    /\ req.op = "POST /slack/generate"
    /\ req.llm.raised
    /\ resp.status = 200
    /\ ~resp.body.success
    /\ resp.body.message_content = None
    /\ resp.body.error = "Error generating message: quota exceeded"

----------------------------------------------------------------------------
(* Claims about the gmail setup called again                               *)

\* the request just answered is a gmail setup that follows a gmail setup
\* for the same entity_id
C23_SetupAgain ==
    /\ req.op = "POST /gmail/setup"
    /\ req.previous.called
    /\ req.previous.entity_id = req.entity_id
C23_Entity == IF req.entity_id = Absent THEN "default" ELSE req.entity_id
C23_Initiations ==
    SelectSeq(calls, LAMBDA c : c.api = "composio" /\ c.action = "initiate_connection")

\* C23: the gmail setup keeps no state between calls: a setup that follows
\* a setup for the same entity_id issues one initiate_connection for that
\* entity again, and its result is decided by the connector's answer to this
\* call alone, whatever the answer to the call before was: success with the
\* redirect URL when the answer carries one, HTTP 500 otherwise; no
\* credential cache is touched.
C23_SetupTwice ==
    C23_SetupAgain =>
        /\ Len(C23_Initiations) = 1
        /\ C23_Initiations[1].app = "GMAIL"
        /\ C23_Initiations[1].entity_id = C23_Entity
        /\ IF req.setup.kind = "obj" /\ req.setup.redirectUrl # Absent
           THEN /\ resp.status = 200
                /\ resp.body.success
                /\ resp.body.redirect_url = req.setup.redirectUrl
           ELSE resp.status = 500
        /\ slack_token_cache = EmptyCache
        /\ linkedin_token_cache = EmptyCache
        /\ api_key_cache = EmptyCache

\* C23 witness: the first setup for user123 failed on a connector exception
\* and the second one, for the same entity, returned a redirect URL.
C23_Witness ==
    /\ C23_SetupAgain
    /\ req.entity_id = "user123"
    /\ req.previous.setup.kind = "raise"
    /\ req.setup.kind = "obj"
    /\ resp.status = 200
    /\ resp.body.redirect_url = "https://auth.example/x"
    /\ Len(calls) = 2

----------------------------------------------------------------------------
(* Claims about the classification of a connector response                 *)

C24_Ops ==
    {"POST /gmail/send", "POST /slack/send", "POST /whatsapp/send",
     "POST /linkedin/message", "POST /linkedin/post"}
\* the actions the operation asked the connector for, and the answer to the
\* last of them
C24_Invoked == ConnectorCalls(calls)
C24_Answer == req.conn[C24_Invoked[Len(C24_Invoked)].action]
\* the connector was asked and returned a response to classify
C24_Returned ==
    /\ req.op \in C24_Ops
    /\ resp.status = 200
    /\ Len(C24_Invoked) > 0
    /\ C24_Answer.kind \in {"obj", "dict"}
C24_Indicator(r, f) == r[f] = "truthy"
C24_Checklist(r) ==
    /\ ResponseTruthy(r)
    /\ \E f \in {"successfull", "success", "data"} : C24_Indicator(r, f)

\* C24: a delivery operation of any channel reports success if and only if
\* the connector response is truthy and one of successfull, success, data is
\* truthy in it, as an attribute or as a dict key; so the same response is
\* classified alike by the gmail, slack, whatsapp and linkedin senders.
C24_SameChecklist ==
    C24_Returned => (resp.body.success <=> C24_Checklist(C24_Answer))

----------------------------------------------------------------------------
(* Claims about generation before delivery                                 *)

\* the request just answered generates a text and then delivers it, and the
\* LLM raised while generating the text
C26_GenerationFailed ==
    /\ req.op \in C5_Ops
    /\ req.op \in {"POST /linkedin/message", "POST /linkedin/post"} =>
          UsableToken(req.access_token)
    /\ req.llm.raised
C26_Prefix ==
    IF req.op = "POST /gmail/send" THEN "Error generating email: "
    ELSE "Error generating message: "
C26_Step ==
    C26_GenerationFailed' =>
        /\ ConnectorCalls(calls') = <<>>
        /\ caches' = caches
        /\ resp'.status = 200
        /\ ~resp'.body.success
        /\ resp'.body.error = C26_Prefix' \o req'.llm.text

\* C26: in gmail/send, slack/send, whatsapp/send, linkedin/message and
\* linkedin/post the delivery starts only after the text was generated: when
\* the generation fails the connector is not called, no credential cache is
\* written and the response is success=false with the generation error.
C26_NoDeliveryWithoutText == [][C26_Step]_vars

\* C26 witness: a whatsapp send with a new api key and a valid number whose
\* generation failed: the key was not cached and the connector not called.
C26_Witness ==
    /\ req.op = "POST /whatsapp/send"
    /\ req.llm.raised
    /\ req.api_key = "key1"
    /\ PhoneValid(req.phone_number)
    /\ api_key_cache = EmptyCache
    /\ ConnectorCalls(calls) = <<>>
    /\ resp.body.error = "Error generating message: quota exceeded"

----------------------------------------------------------------------------
(* Claims about the slack token remembered from a listing                  *)

\* the request just answered is a listing with a valid token
C27_Listing ==
    /\ req.op = "GET /slack/channels"
    /\ req.bot_token \notin {Absent, "", PLACEHOLDER}
C27_ListingOk ==
    /\ C27_Listing
    /\ req.slack.kind = "http"
    /\ req.slack.status = 200
    /\ req.slack.ok
\* the ids of the channels the listing returned
C27_Returned == {resp.body.channels[i].id : i \in 1..Len(resp.body.channels)}
\* the request just answered is a send for a channel, its text generated
C27_Send ==
    /\ req.op = "POST /slack/send"
    /\ Truthy(req.channel_id)
    /\ ~req.llm.raised
C27_NoToken == req.bot_token \in {None, PLACEHOLDER}
\* the connector was called once, for the channel and with the token
C27_CalledWith(cs, channel_id, token) ==
    /\ Len(ConnectorCalls(cs)) = 1
    /\ ConnectorCalls(cs)[1].params.channel = channel_id
    /\ ConnectorCalls(cs)[1].params.token = token

C27_Step ==
    /\ C27_ListingOk' =>
          \A c \in C27_Returned' :
             /\ c \in DOMAIN slack_token_cache'
             /\ slack_token_cache'[c] =
                   [token |-> req'.bot_token, expires |-> now + TTL_HOURS]
    /\ (C27_Listing' /\ ~C27_ListingOk') => slack_token_cache' = slack_token_cache
    /\ (C27_Send' /\ C27_NoToken' /\ req'.channel_id \in DOMAIN slack_token_cache) =>
          LET entry == slack_token_cache[req'.channel_id] IN
          now < entry.expires =>
             /\ C27_CalledWith(calls', req'.channel_id, entry.token)
             /\ slack_token_cache' = slack_token_cache
    /\ (C27_Send' /\ ~C27_NoToken') =>
          /\ C27_CalledWith(calls', req'.channel_id, req'.bot_token)
          /\ req'.channel_id \in DOMAIN slack_token_cache'
          /\ slack_token_cache'[req'.channel_id] =
                [token |-> req'.bot_token, expires |-> now + TTL_HOURS]

\* C27: a listing with a valid token that Slack answers with ok stores the
\* token for each channel it returns, for 24 hours; a send for a channel
\* with no token or the placeholder, made before the entry of the channel
\* expires, calls the connector with the stored token; a token supplied in a
\* send is the one the connector is called with and replaces the stored one;
\* a listing that fails (exception, status other than 200, ok=false) stores
\* nothing.
C27_ListingTokenReused == [][C27_Step]_vars

\* C27 witness: twelve hours after a listing with xoxb-1 stored C1 and C2, a
\* send for C1 without a token was delivered with xoxb-1.
C27_Witness ==
    /\ C27_Send
    /\ req.bot_token = None
    /\ req.channel_id = "C1"
    /\ req.at = 12
    /\ DOMAIN slack_token_cache = {"C1", "C2"}
    /\ \A c \in {"C1", "C2"} : slack_token_cache[c] = [token |-> "xoxb-1", expires |-> 24]
    /\ C27_CalledWith(calls, "C1", "xoxb-1")
    /\ resp.body.success

----------------------------------------------------------------------------
(* Claims about the end of the linkedin fallback chain                     *)

C28_Ops == {"POST /linkedin/connect", "POST /linkedin/message", "POST /linkedin/post"}
C28_ChainRan == req.op \in C28_Ops /\ C4_ChainRan
C28_Answer(i) == req.conn[C4_Names[i]]
\* candidate i is the first that returned, and its response shows no success
C28_ReturnedWithoutSuccess(i) ==
    /\ \A j \in 1..(i - 1) : C4_Raised(j)
    /\ C28_Answer(i).kind \in {"obj", "dict"}
    /\ \A f \in {"successfull", "success", "data"} : C28_Answer(i)[f] # "truthy"
C28_Prefix ==
    CASE req.op = "POST /linkedin/connect" -> "Error sending connection request: "
      [] req.op = "POST /linkedin/message" -> "Error sending message: "
      [] OTHER -> "Error creating post: "

\* C28: in a LinkedIn fallback chain a candidate that returns without
\* raising ends the chain also when its response shows no success: the
\* candidates after it are not invoked and the operation reports
\* success=false; when all three candidates raise, the error reported is
\* the text of the third candidate's exception alone.
C28_ChainEnds ==
    C28_ChainRan =>
        /\ \A i \in 1..3 :
              C28_ReturnedWithoutSuccess(i) =>
                 /\ Len(ConnectorCalls(calls)) = i
                 /\ ConnectorCalls(calls)[i].action = C4_Names[i]
                 /\ resp.status = 200
                 /\ ~resp.body.success
        /\ (\A i \in 1..3 : C4_Raised(i)) =>
              /\ resp.status = 200
              /\ ~resp.body.success
              /\ resp.body.error = C28_Prefix \o C28_Answer(3).text

\* C28 witness: the first candidate of a post raised, the second returned a
\* response without a success indicator, and the third was not invoked.
C28_Witness ==
    /\ req.op = "POST /linkedin/post"
    /\ C28_ChainRan
    /\ C4_Raised(1)
    /\ C28_ReturnedWithoutSuccess(2)
    /\ Len(ConnectorCalls(calls)) = 2
    /\ ~resp.body.success
    /\ resp.body.error = "Failed to create post: not connected"

----------------------------------------------------------------------------
(* Claims about the key the whatsapp api key is stored under               *)

\* send_to_whatsapp was just called with a phone number, in one of its
\* spellings, and an api key that is not the placeholder
C29_KeySupplied ==
    /\ req.op = "send_to_whatsapp"
    /\ req.phone_number \in WhatsAppSpellings
    /\ Truthy(req.phone_number)
    /\ Truthy(req.api_key)
    /\ req.api_key # PLACEHOLDER
\* the send was refused for the number, the message kind or the media URL
C29_Rejected ==
    \/ ~req.is_valid
    \/ req.request.message_type \notin {"text", "media", "template"}
    \/ req.request.message_type = "media" /\ ~Truthy(req.request.media_url)
C29_Step ==
    C29_KeySupplied' =>
        /\ DOMAIN api_key_cache' = DOMAIN api_key_cache \cup {req'.phone_number}
        /\ api_key_cache'[req'.phone_number] =
              [api_key |-> req'.api_key, expires |-> now + TTL_HOURS]
        /\ \A k \in DOMAIN api_key_cache \ {req'.phone_number} :
              api_key_cache'[k] = api_key_cache[k]
        /\ C29_Rejected' => (~resp'.success /\ ConnectorCalls(calls') = <<>>)

\* C29: send_to_whatsapp stores a supplied api key that is not the
\* placeholder under the phone number as the caller wrote it, before the
\* number is validated: the entry is written also when the send is then
\* refused for an invalid number, an unknown message kind or a missing media
\* URL, and the entry of another spelling of the number is left as it was.
C29_RawPhoneKey == [][C29_Step]_vars

\* C29 witness: the number was stored with '+' at hour 0 and without it at
\* hour 12, and a send to the too short number, refused, left an entry too.
C29_Witness ==
    /\ C29_KeySupplied
    /\ req.phone_number = "12345"
    /\ ~resp.success
    /\ calls = <<>>
    /\ DOMAIN api_key_cache = WhatsAppSpellings
    /\ api_key_cache["+1234555019"].expires = 24
    /\ api_key_cache["1234555019"].expires = 36
    /\ api_key_cache["12345"] = [api_key |-> "key1", expires |-> now + TTL_HOURS]

----------------------------------------------------------------------------
(* Claims about concurrent requests on one cache key                       *)

\* request r executes the assignment of its store with this step
C25_Assigns(r) ==
    /\ req.frames[r].pc = "store:assign"
    /\ req'.frames[r].pc # "store:assign"
\* request r executes the del of its lookup with this step
C25_Deletes(r) ==
    /\ req.frames[r].pc = "get:del"
    /\ req'.frames[r].pc # "get:del"
C25_SameEntry(k) ==
    /\ (k \in DOMAIN slack_token_cache') <=> (k \in DOMAIN slack_token_cache)
    /\ k \in DOMAIN slack_token_cache => slack_token_cache'[k] = slack_token_cache[k]
C25_Step ==
    /\ \A r \in Requests :
          C25_Assigns(r) =>
             LET f == req.frames[r] IN
             /\ f.channel_id \in DOMAIN slack_token_cache'
             /\ slack_token_cache'[f.channel_id] =
                   [token |-> f.bot_token, expires |-> f.expires]
             /\ \A k \in ConcurrentChannels \ {f.channel_id} : C25_SameEntry(k)
    /\ (\A r \in Requests : ~C25_Assigns(r) /\ ~C25_Deletes(r)) =>
          \A k \in ConcurrentChannels : C25_SameEntry(k)

\* C25: however the statements of concurrent stores for a key interleave,
\* each assignment leaves for the key the entry of the store that executes
\* it, its secret together with the expiry that store computed, and leaves
\* the entries of the other keys alone; between assignments and deletions
\* no entry changes, so the entry of the key is that of the last store.
C25_LastStoreWins == [][C25_Step]_vars

\* C25 witness: r2 computed its expiry at hour 12 and assigned first; r1,
\* which had computed its expiry at hour 0, assigned last and its entry
\* replaced the one of r2 whole.
C25_Witness ==
    /\ req.op = "concurrent"
    /\ req.frames["r1"].pc = "idle"
    /\ resp.returned["r1"].replaced = [token |-> "xoxb-2", expires |-> 36]
    /\ "C1" \in DOMAIN slack_token_cache
    /\ slack_token_cache["C1"] = [token |-> "xoxb-1", expires |-> 24]
    /\ now = 12

\* request r ends its lookup with this step
C30_LookupEnds(r) ==
    /\ req.frames[r].pc \in {"get:in", "get:entry", "get:expires", "get:token",
                             "get:del", "get:none"}
    /\ req'.frames[r].pc = "idle"
\* request r compares the expiry of the entry it read with the clock
C30_Checks(r) ==
    /\ req.frames[r].pc = "get:expires"
    /\ req'.frames[r].pc # "get:expires"
C30_Step ==
    \A r \in Requests :
       /\ C30_LookupEnds(r) =>
             /\ resp'.returned[r].kind \in {"none", "token"}
             /\ resp'.returned[r].kind = "token" =>
                   /\ resp'.returned[r].value = req.frames[r].cache_entry.token
                   /\ req.frames[r].cache_entry.expires > req.frames[r].checked
       /\ C30_Checks(r) =>
             /\ req'.frames[r].checked = now
             /\ req.frames[r].cache_entry.expires <= now => req'.frames[r].pc = "get:del"
       /\ (req.frames[r].pc = "get:del" /\ req'.frames[r].pc = "idle") =>
             resp'.returned[r].kind = "none"

====
